---- MODULE Spec2Model ----
(***************************************************************************)
(* Model of raminit (FSP 1.1 romstage memory initialisation): boot-mode   *)
(* selection, the FspMemoryInit call, the checks of the hand-off block    *)
(* (HOB) list it returns, and the capture of the MRC data to save.        *)
(* One action per block of straight-line code of raminit; pc is the       *)
(* position inside the function.  Pointers are naturals, 0 is NULL.       *)
(***************************************************************************)
EXTENDS Integers, Naturals, Sequences, FiniteSets, TLC

\* ---------------------------------------------------------------- bounds
\* Largest physical address a resource descriptor may report.
MaxAddr == 2
\* Largest number of records in a HOB list.
MaxHobs == 4
\* Width of size_t, scaled down to the addresses of the model.
SizeBits == 16

NULL == 0

\* ------------------------------------------------------ names of the code
ACPI_S0 == "ACPI_S0"
ACPI_S3 == "ACPI_S3"

BOOT_WITH_FULL_CONFIGURATION == "BOOT_WITH_FULL_CONFIGURATION"
BOOT_ASSUMING_NO_CONFIGURATION_CHANGES == "BOOT_ASSUMING_NO_CONFIGURATION_CHANGES"
BOOT_ON_S3_RESUME == "BOOT_ON_S3_RESUME"
BootModes == {BOOT_WITH_FULL_CONFIGURATION,
              BOOT_ASSUMING_NO_CONFIGURATION_CHANGES,
              BOOT_ON_S3_RESUME}

EFI_SUCCESS == "EFI_SUCCESS"
EFI_DEVICE_ERROR == "EFI_DEVICE_ERROR"

POSTCODE_NONE == "POSTCODE_NONE"
POSTCODE_RAM_FAILURE == "POSTCODE_RAM_FAILURE"
POSTCODE_INVALID_VENDOR_BINARY == "POSTCODE_INVALID_VENDOR_BINARY"

fsp_reserved_guid == "FSP_RESERVED_MEMORY_RESOURCE_HOB_GUID"
bootldr_tolum_guid == "FSP_BOOTLOADER_TOLUM_HOB_GUID"
memory_info_hob_guid == "FSP_SMBIOS_MEMORY_INFO_GUID"
mrc_guid == "FSP_NON_VOLATILE_STORAGE_HOB_GUID"
graphics_info_guid == "EFI_PEI_GRAPHICS_INFO_HOB_GUID"

\* CONFIG(HAVE_SMI_HANDLER) is fixed by the build; both builds are modelled.
VARIABLES
    HAVE_SMI_HANDLER,
    pc,                         \* position in raminit
    params,                     \* struct romstage_params (isNull: a NULL pointer)
    fsp_header,                 \* params->chipset_context, with the offsets it leads to
    s3wake,
    BootMode,                   \* fsp_rt_common_buffer.BootMode
    calls,                      \* number of calls of FspMemoryInit so far
    status,
    hob_list_ptr,
    hob_list,                   \* the records at hob_list_ptr
    fsp_memory,
    cbmem_root,
    memory_info_hob,
    hob_ptr,
    smm_base,
    fsp_reserved_bytes,
    cbmem_fsp,                  \* accounting subsystem: the block of CBMEM_ID_FSP_RESERVED_MEMORY
    cbmem_size,                 \* the size that block was requested with
    runtime_hob_list,           \* what fsp_set_runtime saved
    fsp_reserved_memory_area,
    fsp_verification_failure,
    post,                       \* post code of die_with_post_code
    haltAt,                     \* the position the function died or reset at
    original_params,            \* the MEMORY_INIT_UPD defaults inside the FSP image
    memory_init_params,         \* the working copy raminit hands to FspMemoryInit
    \* intel_silicon_init and fsp_run_silicon_init (ramstage)
    RUN_FSP_GOP,
    BMP_LOGO,
    spc,                        \* position in intel_silicon_init
    fsp_info_header,            \* what fsp_get_fih returns, with the offsets it leads to
    sil_original_params,        \* the SILICON_INIT_UPD defaults inside the FSP image
    silicon_init_params,        \* the working copy handed to FspSiliconInit
    sil_calls,                  \* number of calls of FspSiliconInit so far
    sil_status,
    sil_log,                    \* what ran after the call of FspSiliconInit, in order
    \* soc_init_pre_device
    socpc,                      \* position in soc_init_pre_device
    cse_early_eop,              \* config_of_soc()->cse_early_eop
    hsphy_loaded,               \* what load_and_init_hsphy returned
    soc_log,                    \* the calls soc_init_pre_device has made, in order
    \* the TPM measurement log
    lpc,                        \* "log" while the log functions are exercised
    ENV_HAS_CBMEM,
    tclt,                       \* the static pointer of tpm_cb_log_cbmem_init
    cbmem_log,                  \* the table of CBMEM_ID_TPM_CB_LOG (present or not)
    tpm_log,                    \* the pre-RAM table at _tpm_log
    log_op,                     \* the last call of a log function and what it returned
    \* hardened_malloc
    hpc,                        \* "heap" while the allocator is exercised
    alloc_table,                \* the static table of tracked allocations
    heap,                       \* the blocks of the underlying allocator
    heap_op                     \* the last call of hardened_malloc or hardened_free

vars == <<HAVE_SMI_HANDLER, pc, params, fsp_header, s3wake, BootMode, calls, status,
          hob_list_ptr, hob_list, fsp_memory, cbmem_root, memory_info_hob, hob_ptr,
          smm_base, fsp_reserved_bytes, cbmem_fsp, cbmem_size, runtime_hob_list,
          fsp_reserved_memory_area, fsp_verification_failure, post, haltAt,
          original_params, memory_init_params,
          RUN_FSP_GOP, BMP_LOGO, spc, fsp_info_header, sil_original_params,
          silicon_init_params, sil_calls, sil_status, sil_log,
          socpc, cse_early_eop, hsphy_loaded, soc_log,
          lpc, ENV_HAS_CBMEM, tclt, cbmem_log, tpm_log, log_op,
          hpc, alloc_table, heap, heap_op>>

\* the state of soc_init_pre_device
socvars == <<socpc, cse_early_eop, hsphy_loaded, soc_log>>
\* the state of hardened_malloc
heapvars == <<hpc, alloc_table, heap, heap_op>>
\* the state of the measurement log
logvars == <<lpc, ENV_HAS_CBMEM, tclt, cbmem_log, tpm_log, log_op>>

\* the state of the silicon initialisation
silvars == <<RUN_FSP_GOP, BMP_LOGO, spc, fsp_info_header, sil_original_params,
             silicon_init_params, sil_calls, sil_status, sil_log>>

\* ------------------------------------------------------------ HOB records
Addr == 1..MaxAddr
\* bases smm_region may report
SmmBases == {MaxAddr, MaxAddr + 1}
\* The fixed header of a GUID HOB: the generic header with the length field,
\* then the GUID.  The payload follows it.
GuidHobHeader == 24
\* payload sizes of the non-volatile storage HOB
MrcDataSizes == {20, 32}
\* HobLength values of the non-volatile storage HOB: the declared length of a
\* record covers its header and its payload
MrcLengths == {GuidHobHeader + n : n \in MrcDataSizes}

ResourceHobs == [guid : {fsp_reserved_guid, bootldr_tolum_guid},
                 PhysicalStart : Addr, ResourceLength : {1}, HobLength : {48}]
GuidHobs == [guid : {memory_info_hob_guid, graphics_info_guid},
             PhysicalStart : {0}, ResourceLength : {0}, HobLength : {GuidHobHeader}]
             \cup [guid : {mrc_guid},
                   PhysicalStart : {0}, ResourceLength : {0}, HobLength : MrcLengths]
HobPool == ResourceHobs \cup GuidHobs
\* the end-marker record
END_OF_HOB_LIST == "EFI_HOB_TYPE_END_OF_HOB_LIST"
EndHob == [guid |-> END_OF_HOB_LIST, PhysicalStart |-> 0, ResourceLength |-> 0,
           HobLength |-> 8]

\* up to MaxHobs records, one per GUID
HobRecords == UNION {{l \in [1..n -> HobPool] :
                        \A i, j \in 1..n : i # j => l[i].guid # l[j].guid} : n \in 0..MaxHobs}
\* The lists the module may hand back: the records followed by the end-marker,
\* or the records with no end-marker within the traversal limit.
HobLists == HobRecords \cup {Append(l, EndHob) : l \in HobRecords}

\* First record of the list with the wanted GUID, as its index; NULL when the
\* list pointer is NULL, when the end-marker is reached with no match, and
\* when the walk reaches the traversal limit.
RECURSIVE get_next_hob(_, _, _)
get_next_hob(guid, list, i) ==
    IF i > Len(list) THEN NULL
    ELSE IF list[i].guid = END_OF_HOB_LIST THEN NULL
    ELSE IF list[i].guid = guid THEN i
    ELSE get_next_hob(guid, list, i + 1)

\* What the bounded walk for guid found: a record, the end-marker, or the
\* traversal limit
RECURSIVE hob_walk(_, _, _)
hob_walk(guid, list, i) ==
    IF i > Len(list) THEN "list_corrupt"
    ELSE IF list[i].guid = END_OF_HOB_LIST THEN "not_found"
    ELSE IF list[i].guid = guid THEN "found"
    ELSE hob_walk(guid, list, i + 1)

get_resource_hob(guid, ptr, list) ==
    IF ptr = NULL THEN NULL ELSE get_next_hob(guid, list, 1)

get_guid_hob(guid, ptr, list) ==
    IF ptr = NULL THEN NULL ELSE get_next_hob(guid, list, 1)

ALIGN_UP(x, a) == ((x + a - 1) \div a) * a

\* ------------------------------------------------------ decisions of raminit
\* s3wake, lines 553-554
S3Wake(p) == (p.power_state # NULL) /\ (p.prev_sleep_state = ACPI_S3)

\* saved data taking precedence over the resume
SelectBootMode_SavedFirst(s3, saved_data) ==
    IF saved_data # NULL THEN BOOT_ASSUMING_NO_CONFIGURATION_CHANGES
    ELSE IF s3 THEN BOOT_ON_S3_RESUME
    ELSE BOOT_WITH_FULL_CONFIGURATION

\* the two non-resume modes exchanged
SelectBootMode_Swapped(s3, saved_data) ==
    IF s3 THEN BOOT_ON_S3_RESUME
    ELSE IF saved_data # NULL THEN BOOT_WITH_FULL_CONFIGURATION
    ELSE BOOT_ASSUMING_NO_CONFIGURATION_CHANGES

\* the boot mode handed to FspMemoryInit, lines 592-598
SelectBootMode(s3, saved_data) ==
    IF s3 THEN BOOT_ON_S3_RESUME
    ELSE IF saved_data # NULL THEN BOOT_ASSUMING_NO_CONFIGURATION_CHANGES
    ELSE BOOT_WITH_FULL_CONFIGURATION

\* line 641
StatusFailed_Never(st) == FALSE

StatusFailed(st) == st # EFI_SUCCESS

\* the saved data of the caller ignored
MrcHobMissing_NoSaved(hob, saved_data) == hob = NULL

\* line 704
MrcHobMissing(hob, saved_data) == (hob = NULL) /\ (saved_data = NULL)

\* equal starts let through
AboveCbmemRoot_Strict(root_start, fsp_start) == root_start < fsp_start

\* line 722
AboveCbmemRoot(root_start, fsp_start) == root_start <= fsp_start

\* only the address compared
ReservedAreaMismatch_NoNull(area, fsp_start) == (area # NULL) /\ (fsp_start # area)

\* only the missing block noticed
ReservedAreaMismatch_NullOnly(area, fsp_start) == area = NULL

\* lines 730-731
ReservedAreaMismatch(area, fsp_start) == (area = NULL) \/ (fsp_start # area)

\* the TOLUM HOB not asked for
ChipsetReservedDie_NoRoot(smi, root) == smi

\* line 735
ChipsetReservedDie(smi, root) == smi /\ (root # NULL)

\* lines 736-738: size_t arithmetic wraps around; the word is SizeBits wide
SizeT == 2^SizeBits
delta_bytes(base, root) == (base - root.PhysicalStart - root.ResourceLength) % SizeT

\* ------------------------------------------------ UPD data and the hooks
\* A UPD structure, as its fields: one only the SoC hook sets, one only the
\* mainboard hook sets, one both set, one none sets.
UpdFields == {"PcdSoc", "PcdBoard", "PcdBoth", "PcdNone", "PcdLogoPtr"}
UpdDefaults == [f \in UpdFields |-> "default"]
UpdZero == [f \in UpdFields |-> "zero"]

\* soc_memory_init_params, soc_silicon_init_params: the platform's settings
soc_init_params(upd) == [upd EXCEPT !["PcdSoc"] = "soc", !["PcdBoth"] = "soc"]
\* mainboard_memory_init_params, mainboard_silicon_init_params: the board's settings
mainboard_init_params(upd) ==
    [upd EXCEPT !["PcdBoard"] = "mainboard", !["PcdBoth"] = "mainboard"]

\* the board hook called before the SoC hook
MemoryInitHooks_BoardFirst(defaults) == soc_init_params(mainboard_init_params(defaults))

\* lines 587 and 608-609: the defaults copied, then the SoC hook, then the
\* mainboard hook, all on the copy
MemoryInitHooks(defaults) == mainboard_init_params(soc_init_params(defaults))

\* ------------------------------------------------------------------- Init
\* what the caller left in data_to_save and data_to_save_size
StaleData == 7
StaleSize == 5

ParamsSet == [isNull : {TRUE}, power_state : {NULL}, prev_sleep_state : {ACPI_S0},
              saved_data : {NULL}, data_to_save : {StaleData}, data_to_save_size : {StaleSize}]
             \cup
             [isNull : {FALSE}, power_state : {NULL}, prev_sleep_state : {ACPI_S0},
              saved_data : {NULL, 1}, data_to_save : {StaleData}, data_to_save_size : {StaleSize}]
             \cup
             [isNull : {FALSE}, power_state : {1}, prev_sleep_state : {ACPI_S0, ACPI_S3},
              saved_data : {NULL, 1}, data_to_save : {StaleData}, data_to_save_size : {StaleSize}]

\* chipset_context: NULL, or a header with the two offsets found through it
HeaderSet == [isNull : {TRUE}, CfgRegionOffset : {0}, PcdUpdRegionOffset : {0}]
             \cup
             [isNull : {FALSE}, CfgRegionOffset : {0, 1}, PcdUpdRegionOffset : {0, 1}]

\* what fsp_get_fih returns: NULL, or a header with the image base and the
\* three offsets found through it
FihSet == [isNull : {TRUE}, ImageBase : {0}, CfgRegionOffset : {0},
           PcdUpdRegionOffset : {0}, SiliconInitUpdOffset : {0}]
          \cup
          [isNull : {FALSE}, ImageBase : {0, 1}, CfgRegionOffset : {0, 1},
           PcdUpdRegionOffset : {0, 1}, SiliconInitUpdOffset : {0, 1}]

\* ------------------------------------------------- the TPM measurement log
\* capacities of the table in cbmem and of the pre-RAM table
MAX_TPM_LOG_ENTRIES == 2
MAX_PRERAM_TPM_LOG_ENTRIES == 2
TPM_CB_LOG_DIGEST_MAX_LENGTH == 64
IntMaxHalf == 1073741823
\* the addresses of the two tables
CBMEM_LOG == 1
PRERAM_LOG == 2

\* safe_strncpy into the name field: a name longer than the field is cut
LongName == "LONGNAME"
CutName == "LONGNAM"
safe_strncpy(src) == IF src = LongName THEN CutName ELSE src

\* an entry after secure_zero
ZeroEntry == [name |-> "", digest_length |-> 0]
\* entries a table may hold when the log functions are first called; the
\* digest_length field is a byte and may hold more than the maximum
CbmemEntries == {[name |-> "a", digest_length |-> TPM_CB_LOG_DIGEST_MAX_LENGTH],
                 [name |-> CutName, digest_length |-> 0]}
PreramEntries == CbmemEntries \cup
                 {[name |-> "a", digest_length |-> TPM_CB_LOG_DIGEST_MAX_LENGTH + 1]}

\* Tables of capacity cap: slot i of the model is entries[i - 1] of the code.
\* max_entries is the capacity or 0, num_entries may exceed max_entries
\* (invalid metadata); the slots from num_entries on are zero.
LogTables(cap, E) ==
    {t \in [present : {TRUE}, max_entries : {0, cap}, num_entries : 0..(cap + 1),
            entries : [1..cap -> E \cup {ZeroEntry}]] :
        \A i \in 1..cap : (i > t.num_entries) <=> (t.entries[i] = ZeroEntry)}
\* no table in cbmem
AbsentTable == [present |-> FALSE, max_entries |-> 0, num_entries |-> 0,
                entries |-> [i \in 1..MAX_TPM_LOG_ENTRIES |-> ZeroEntry]]
\* lines 77-82: the table tpm_cb_log_cbmem_init sets up after cbmem_add
FreshTable == [present |-> TRUE, max_entries |-> MAX_TPM_LOG_ENTRIES, num_entries |-> 0,
               entries |-> [i \in 1..MAX_TPM_LOG_ENTRIES |-> ZeroEntry]]

\* the metadata check of lines 151, 241 and 88
LogMetadataInvalid(t) == t.max_entries = 0 \/ t.num_entries > t.max_entries

\* the table found in cbmem set up again
tpm_cb_log_cbmem_init_Reset(cache, table, env, added) ==
    IF ~env THEN [tclt |-> NULL, cbmem_log |-> table, ret |-> NULL]
    ELSE IF table.present \/ added
    THEN [tclt |-> CBMEM_LOG, cbmem_log |-> FreshTable, ret |-> CBMEM_LOG]
    ELSE [tclt |-> NULL, cbmem_log |-> table, ret |-> NULL]

\* lines 48-94: the static pointer, the table in cbmem and the pointer
\* returned; added says whether cbmem_add succeeds
tpm_cb_log_cbmem_init(cache, table, env, added) ==
    IF cache # NULL /\ table.max_entries > 0
         /\ table.num_entries <= table.max_entries
         /\ table.num_entries < IntMaxHalf
    THEN [tclt |-> cache, cbmem_log |-> table, ret |-> cache]
    ELSE IF ~env
    THEN [tclt |-> NULL, cbmem_log |-> table, ret |-> NULL]
    ELSE LET found == IF table.present THEN CBMEM_LOG ELSE NULL
             ptr == IF found # NULL THEN found
                    ELSE IF added THEN CBMEM_LOG ELSE NULL
             tab == IF found = NULL /\ added THEN FreshTable ELSE table
             res == IF ptr # NULL /\ LogMetadataInvalid(tab) THEN NULL ELSE ptr
         IN [tclt |-> res, cbmem_log |-> tab, ret |-> res]

\* tpm_log_init: the table in cbmem where the stage has cbmem, the pre-RAM
\* table where it has not
tpm_log_init(cache, table, env, added) ==
    IF env THEN tpm_cb_log_cbmem_init(cache, table, env, added)
    ELSE [tclt |-> cache, cbmem_log |-> table, ret |-> PRERAM_LOG]

\* what tpm_cb_log_add_table_entry may be called with
AddInputs ==
    {[name_null |-> FALSE, name |-> "a", digest_null |-> FALSE,
      digest_len |-> TPM_CB_LOG_DIGEST_MAX_LENGTH],
     [name_null |-> FALSE, name |-> LongName, digest_null |-> TRUE, digest_len |-> 0],
     [name_null |-> TRUE, name |-> "", digest_null |-> FALSE,
      digest_len |-> TPM_CB_LOG_DIGEST_MAX_LENGTH],
     [name_null |-> FALSE, name |-> "a", digest_null |-> TRUE,
      digest_len |-> TPM_CB_LOG_DIGEST_MAX_LENGTH],
     [name_null |-> FALSE, name |-> "a", digest_null |-> FALSE,
      digest_len |-> TPM_CB_LOG_DIGEST_MAX_LENGTH + 1]}

\* a full table accepted
AddVerdict_NoFullCheck(ptr, t, in) ==
    IF ptr = NULL THEN "log_missing"
    ELSE IF LogMetadataInvalid(t) THEN "invalid_metadata"
    ELSE IF in.name_null THEN "null_name"
    ELSE IF in.digest_null /\ in.digest_len # 0 THEN "null_digest"
    ELSE IF in.digest_len > TPM_CB_LOG_DIGEST_MAX_LENGTH THEN "digest_too_long"
    ELSE "ok"

\* lines 144-174: the checks of tpm_cb_log_add_table_entry, in their order
AddVerdict(ptr, t, in) ==
    IF ptr = NULL THEN "log_missing"
    ELSE IF LogMetadataInvalid(t) THEN "invalid_metadata"
    ELSE IF t.num_entries >= t.max_entries THEN "log_full"
    ELSE IF in.name_null THEN "null_name"
    ELSE IF in.digest_null /\ in.digest_len # 0 THEN "null_digest"
    ELSE IF in.digest_len > TPM_CB_LOG_DIGEST_MAX_LENGTH THEN "digest_too_long"
    ELSE "ok"

\* the new entry written over the last one
AddEntry_Overwrite(t, in) ==
    [t EXCEPT !.entries = [i \in DOMAIN t.entries |->
                             IF i = t.num_entries \/ i = t.num_entries + 1
                             THEN [name |-> safe_strncpy(in.name),
                                   digest_length |-> in.digest_len]
                             ELSE t.entries[i]],
              !.num_entries = @ + 1]

\* lines 176-200: the entry at index num_entries is zeroed and filled, then
\* num_entries is incremented
AddEntry(t, in) ==
    [t EXCEPT !.entries = [i \in DOMAIN t.entries |->
                             IF i = t.num_entries + 1
                             THEN [name |-> safe_strncpy(in.name),
                                   digest_length |-> in.digest_len]
                             ELSE t.entries[i]],
              !.num_entries = @ + 1]

\* lines 204-222
tpm_cb_preram_log_clear(t) ==
    [t EXCEPT !.entries = [i \in DOMAIN t.entries |->
                             IF t.num_entries > 0 /\ t.num_entries <= t.max_entries
                                  /\ i <= t.num_entries /\ i <= t.max_entries
                             THEN ZeroEntry ELSE t.entries[i]],
              !.max_entries = MAX_PRERAM_TPM_LOG_ENTRIES,
              !.num_entries = 0]

\* lines 226-270: what tpm_cb_log_get returns
tpm_cb_log_get(args_ok, ptr, t, entry_idx) ==
    IF ~args_ok THEN 1
    ELSE IF ptr = NULL THEN 1
    ELSE IF LogMetadataInvalid(t) THEN 1
    ELSE IF entry_idx < 0 \/ entry_idx >= t.num_entries THEN 1
    ELSE 0

\* an over-long digest clamped and the copy carried on
RECURSIVE copy_loop_Clamp(_, _, _)
copy_loop_Clamp(from, to, i) ==
    IF i >= from.num_entries THEN to
    ELSE IF to.num_entries >= to.max_entries THEN to
    ELSE LET src == from.entries[i + 1]
             slot == to.num_entries + 1
             len == IF src.digest_length > TPM_CB_LOG_DIGEST_MAX_LENGTH
                    THEN TPM_CB_LOG_DIGEST_MAX_LENGTH ELSE src.digest_length
         IN copy_loop_Clamp(from,
                [to EXCEPT !.entries[slot] = [name |-> safe_strncpy(src.name),
                                              digest_length |-> len],
                           !.num_entries = @ + 1],
                i + 1)

\* lines 303-340: the loop of tpm_cb_log_copy_entries from index i of the
\* source on.  An over-long digest ends it after the slot was zeroed and the
\* name copied, with num_entries as it was.
RECURSIVE copy_loop(_, _, _)
copy_loop(from, to, i) ==
    IF i >= from.num_entries THEN to
    ELSE IF to.num_entries >= to.max_entries THEN to
    ELSE LET src == from.entries[i + 1]
             slot == to.num_entries + 1
         IN IF src.digest_length > TPM_CB_LOG_DIGEST_MAX_LENGTH
            THEN [to EXCEPT !.entries[slot] = [name |-> safe_strncpy(src.name),
                                               digest_length |-> 0]]
            ELSE copy_loop(from,
                     [to EXCEPT !.entries[slot] = [name |-> safe_strncpy(src.name),
                                                   digest_length |-> src.digest_length],
                                !.num_entries = @ + 1],
                     i + 1)

\* lines 293-301: the checks before the loop
CopyRejected(from_ptr, from, to_ptr, to) ==
    \/ from_ptr = NULL \/ to_ptr = NULL
    \/ from.max_entries = 0 \/ to.max_entries = 0
    \/ from.num_entries > from.max_entries

\* lines 287-341: the destination table after tpm_cb_log_copy_entries
tpm_cb_log_copy_entries(from_ptr, from, to_ptr, to) ==
    IF CopyRejected(from_ptr, from, to_ptr, to) THEN to ELSE copy_loop(from, to, 0)

NoLogOp == [op |-> "none", seq |-> 0, ret |-> "", idx |-> 0, tab |-> NULL, from |-> NULL]
LogOp(op, ret, idx, tab, from) ==
    [op |-> op, seq |-> 1 - log_op.seq, ret |-> ret, idx |-> idx, tab |-> tab,
     from |-> from]

\* -------------------------------------------------------- hardened_malloc
\* Number of slots of alloc_table (128 in the header), scaled down.
MAX_HARDENED_ALLOCATIONS == 2
\* Number of blocks the underlying allocator can hand out at once.
HeapBlocks == 3
CANARY_VALUE == 195936478
CANARY_SIZE == 4
SIZE_MAX == SizeT - 1
\* The sizes a caller asks for: one byte, the largest size the canary still
\* fits behind, and the smallest and the largest size whose sum with
\* CANARY_SIZE wraps.
MallocSizes == {1, SIZE_MAX - CANARY_SIZE, SIZE_MAX - CANARY_SIZE + 1, SIZE_MAX}
\* The pointers a caller can hand to hardened_free: NULL, every block of the
\* allocator, and an address that is no block at all.
HeapPtrs == 1..HeapBlocks
WildPtr == HeapBlocks + 1
FreePtrs == {NULL} \cup HeapPtrs \cup {WildPtr}
\* What read_canary may find behind a block: the canary, or what the
\* application wrote over it.
CanaryWords == {CANARY_VALUE, 0}

\* a block of the underlying allocator: len bytes long while live, canary_at
\* is the offset write_canary wrote at, freed once free has released it
DeadBlock == [live |-> FALSE, len |-> 0, canary_at |-> 0, freed |-> FALSE]
FreedBlock == [live |-> FALSE, len |-> 0, canary_at |-> 0, freed |-> TRUE]
EmptySlot == [user_ptr |-> NULL, size |-> 0]
\* alloc_table is static: every slot starts zeroed
EmptyAllocTable == [i \in 1..MAX_HARDENED_ALLOCATIONS |-> EmptySlot]

\* hardened_malloc line 29: the pointers malloc may return, NULL or a block
\* that is not in use
malloc_results(hp) == {NULL} \cup {p \in HeapPtrs : ~hp[p].live}
\* hardened_malloc line 27: size_t arithmetic
total_size(size) == (size + CANARY_SIZE) % SizeT
\* hardened_malloc lines 34-35: the canary is written at real_ptr + size; the
\* write is inside the block when all its bytes are
CanaryInside(block) == block.canary_at + CANARY_SIZE <= block.len

\* hardened_malloc lines 38-44: the loop stops at the first slot whose user_ptr
\* is NULL; 0 when it runs to the end of the table
FirstSlot(table, ptr) ==
    IF \E i \in 1..MAX_HARDENED_ALLOCATIONS : table[i].user_ptr = ptr
    THEN CHOOSE i \in 1..MAX_HARDENED_ALLOCATIONS :
             /\ table[i].user_ptr = ptr
             /\ \A j \in 1..(i - 1) : table[j].user_ptr # ptr
    ELSE 0
Track(table, real_ptr, size) ==
    LET i == FirstSlot(table, NULL)
    IN IF i = 0 THEN table
       ELSE [table EXCEPT ![i] = [user_ptr |-> real_ptr, size |-> size]]

\* hardened_malloc lines 25-47 for the pointer malloc returned
hardened_malloc(table, hp, size, real_ptr) ==
    IF real_ptr = NULL
    THEN [alloc_table |-> table, heap |-> hp, ret |-> NULL]
    ELSE [alloc_table |-> Track(table, real_ptr, size),
          heap |-> [hp EXCEPT ![real_ptr] = [live |-> TRUE,
                                             len |-> total_size(size),
                                             canary_at |-> size,
                                             freed |-> FALSE]],
          ret |-> real_ptr]

\* hardened_free lines 53-54: the slot that holds ptr, 0 when no slot does
FindSlot(table, ptr) == FirstSlot(table, ptr)
\* hardened_free that keeps the slot
ClearSlot_Keep(table, i) == table
\* hardened_free lines 60-61
ClearSlot(table, i) == [table EXCEPT ![i] = EmptySlot]
\* hardened_free line 59: the underlying free
free(hp, ptr) == [hp EXCEPT ![ptr] = FreedBlock]
\* check_canary lines 18-23: only a message
check_canary(word) == IF word # CANARY_VALUE THEN "overflow" ELSE ""

\* hardened_free lines 49-67; word is what stands at ptr + size
hardened_free(table, hp, ptr, word) ==
    LET i == FindSlot(table, ptr)
    IN IF ptr = NULL
       THEN [alloc_table |-> table, heap |-> hp, frees |-> << >>, report |-> ""]
       ELSE IF i # 0
       THEN [alloc_table |-> ClearSlot(table, i),
             heap |-> free(hp, ptr),
             frees |-> <<ptr>>,
             report |-> check_canary(word)]
       ELSE [alloc_table |-> table, heap |-> hp, frees |-> << >>,
             report |-> "unknown"]

NoHeapOp == [op |-> "none", ptr |-> NULL, frees |-> << >>, report |-> ""]

\* hardened_malloc and hardened_free are not called
HeapIdle ==
    /\ hpc = "idle"
    /\ alloc_table = EmptyAllocTable
    /\ heap = [p \in HeapPtrs |-> DeadBlock]
    /\ heap_op = NoHeapOp

\* the log functions are not exercised
LogIdle ==
    /\ lpc = "idle"
    /\ ENV_HAS_CBMEM = FALSE
    /\ tclt = NULL
    /\ cbmem_log = AbsentTable
    /\ tpm_log = AbsentTable
    /\ log_op = NoLogOp

\* soc_init_pre_device does not run
SocIdle ==
    /\ socpc = "idle"
    /\ cse_early_eop = FALSE
    /\ hsphy_loaded = FALSE
    /\ soc_log = << >>

\* the state of a stage that does not run
RaminitIdle ==
    /\ HAVE_SMI_HANDLER = FALSE
    /\ pc = "idle"
    /\ params = [isNull |-> TRUE, power_state |-> NULL, prev_sleep_state |-> ACPI_S0,
                 saved_data |-> NULL, data_to_save |-> StaleData,
                 data_to_save_size |-> StaleSize]
    /\ fsp_header = [isNull |-> TRUE, CfgRegionOffset |-> 0, PcdUpdRegionOffset |-> 0]

SiliconInitIdle ==
    /\ RUN_FSP_GOP = FALSE
    /\ BMP_LOGO = FALSE
    /\ spc = "idle"
    /\ fsp_info_header = [isNull |-> TRUE, ImageBase |-> 0, CfgRegionOffset |-> 0,
                          PcdUpdRegionOffset |-> 0, SiliconInitUpdOffset |-> 0]

\* the locals of raminit at its entry
RaminitLocals ==
    /\ s3wake = FALSE
    /\ BootMode = BOOT_WITH_FULL_CONFIGURATION   \* the zeroed fsp_rt_common_buffer
    /\ calls = 0
    /\ status = EFI_SUCCESS
    /\ hob_list_ptr = NULL
    /\ hob_list = << >>
    /\ fsp_memory = NULL
    /\ cbmem_root = NULL
    /\ memory_info_hob = NULL
    /\ hob_ptr = NULL
    /\ smm_base = 0
    /\ fsp_reserved_bytes = 0
    /\ cbmem_fsp = NULL
    /\ cbmem_size = 0
    /\ runtime_hob_list = NULL
    /\ fsp_reserved_memory_area = NULL
    /\ fsp_verification_failure = 0
    /\ post = POSTCODE_NONE
    /\ haltAt = "none"
    /\ original_params = UpdDefaults
    /\ memory_init_params = UpdZero

\* the locals of fsp_run_silicon_init at its entry
SiliconInitLocals ==
    /\ sil_original_params = UpdDefaults
    /\ silicon_init_params = UpdZero
    /\ sil_calls = 0
    /\ sil_status = EFI_SUCCESS
    /\ sil_log = << >>

\* romstage: raminit runs
RaminitInit ==
    /\ HAVE_SMI_HANDLER \in BOOLEAN
    /\ pc = "entry"
    /\ params \in ParamsSet
    /\ fsp_header \in HeaderSet
    /\ RaminitLocals
    /\ SiliconInitIdle
    /\ SiliconInitLocals
    /\ SocIdle
    /\ LogIdle
    /\ HeapIdle

\* ramstage: intel_silicon_init runs
SiliconInitInit ==
    /\ RUN_FSP_GOP \in BOOLEAN
    /\ BMP_LOGO \in BOOLEAN
    /\ spc = "sil_entry"
    /\ fsp_info_header \in FihSet
    /\ SiliconInitLocals
    /\ RaminitIdle
    /\ RaminitLocals
    /\ SocIdle
    /\ LogIdle
    /\ HeapIdle

\* ramstage: soc_init_pre_device runs
SocInit ==
    /\ socpc = "soc_hsphy"
    /\ cse_early_eop \in BOOLEAN
    /\ hsphy_loaded = FALSE
    /\ soc_log = << >>
    /\ RaminitIdle
    /\ RaminitLocals
    /\ SiliconInitIdle
    /\ SiliconInitLocals
    /\ LogIdle
    /\ HeapIdle

Init == RaminitInit \/ SiliconInitInit \/ SocInit

\* the log functions are called in any order on the tables a stage starts with
LogInit ==
    /\ lpc = "log"
    /\ ENV_HAS_CBMEM \in BOOLEAN
    /\ tclt = NULL
    /\ cbmem_log \in IF ENV_HAS_CBMEM
                     THEN {AbsentTable} \cup LogTables(MAX_TPM_LOG_ENTRIES, CbmemEntries)
                     ELSE {AbsentTable}
    /\ tpm_log \in LogTables(MAX_PRERAM_TPM_LOG_ENTRIES, PreramEntries)
    /\ log_op = NoLogOp
    /\ RaminitIdle
    /\ RaminitLocals
    /\ SiliconInitIdle
    /\ SiliconInitLocals
    /\ SocIdle
    /\ HeapIdle

\* The address of the record at index hob: the list is walked by adding the
\* declared length of each record to its address.
RECURSIVE HobAddr(_)
HobAddr(hob) ==
    IF hob = 1 THEN hob_list_ptr
    ELSE HobAddr(hob - 1) + hob_list[hob - 1].HobLength

\* GET_GUID_HOB_DATA: the payload, right after the header of the GUID HOB
GET_GUID_HOB_DATA(hob) == HobAddr(hob) + GuidHobHeader
\* GET_HOB_LENGTH: the declared length of the record at index hob
GET_HOB_LENGTH(hob) == hob_list[hob].HobLength

\* nothing saved, whatever the list holds
SavedParams_AlwaysEmpty(p, mrc_hob) ==
    [p EXCEPT !.data_to_save = NULL, !.data_to_save_size = 0]

\* the output fields left alone when the HOB is missing
SavedParams_KeepStale(p, mrc_hob) ==
    IF mrc_hob # NULL
    THEN [p EXCEPT !.data_to_save = GET_GUID_HOB_DATA(mrc_hob),
                   !.data_to_save_size = ALIGN_UP(GET_HOB_LENGTH(mrc_hob), 16)]
    ELSE p

\* lines 755-764: what raminit stores in params
SavedParams(p, mrc_hob) ==
    IF mrc_hob # NULL
    THEN [p EXCEPT !.data_to_save = GET_GUID_HOB_DATA(mrc_hob),
                   !.data_to_save_size = ALIGN_UP(GET_HOB_LENGTH(mrc_hob), 16)]
    ELSE [p EXCEPT !.data_to_save = NULL, !.data_to_save_size = 0]

\* one post code for every death
die_with_post_code_Same(code) ==
    /\ post' = POSTCODE_RAM_FAILURE
    /\ haltAt' = pc
    /\ pc' = "halt"

\* die_with_post_code: the function does not return
die_with_post_code(code) ==
    /\ post' = code
    /\ haltAt' = pc
    /\ pc' = "halt"

goto(l) == pc' = l /\ UNCHANGED <<post, haltAt>>

\* ------------------------------------------------- raminit, block by block
\* lines 548-560: NULL checks of params and of the FSP header, s3wake
CheckParams ==
    /\ pc = "entry"
    /\ IF params.isNull THEN
          /\ die_with_post_code(POSTCODE_RAM_FAILURE)
          /\ UNCHANGED s3wake
       ELSE
          /\ s3wake' = S3Wake(params)
          /\ IF fsp_header.isNull
             THEN die_with_post_code(POSTCODE_RAM_FAILURE)
             ELSE goto("resolve")
    /\ UNCHANGED <<heapvars, socvars, logvars, silvars, original_params, memory_init_params, HAVE_SMI_HANDLER, params, fsp_header, BootMode, calls, status,
                   hob_list_ptr, hob_list, fsp_memory, cbmem_root, memory_info_hob,
                   hob_ptr, smm_base, fsp_reserved_bytes, cbmem_fsp, cbmem_size,
                   runtime_hob_list, fsp_reserved_memory_area, fsp_verification_failure>>

\* the second offset not checked
ResolveUpd_NoUpdCheck ==
    /\ pc = "resolve"
    /\ IF fsp_header.CfgRegionOffset = 0
       THEN die_with_post_code(POSTCODE_INVALID_VENDOR_BINARY)
       ELSE goto("setup")
    /\ UNCHANGED <<heapvars, socvars, logvars, silvars, original_params, memory_init_params, HAVE_SMI_HANDLER, params, fsp_header, s3wake, BootMode, calls, status,
                   hob_list_ptr, hob_list, fsp_memory, cbmem_root, memory_info_hob,
                   hob_ptr, smm_base, fsp_reserved_bytes, cbmem_fsp, cbmem_size,
                   runtime_hob_list, fsp_reserved_memory_area, fsp_verification_failure>>

\* lines 562-584: VPD and UPD pointers from the two offsets
ResolveUpd ==
    /\ pc = "resolve"
    /\ IF fsp_header.CfgRegionOffset = 0
       THEN die_with_post_code(POSTCODE_INVALID_VENDOR_BINARY)
       ELSE IF fsp_header.PcdUpdRegionOffset = 0
       THEN die_with_post_code(POSTCODE_INVALID_VENDOR_BINARY)
       ELSE goto("setup")
    /\ UNCHANGED <<heapvars, socvars, logvars, silvars, original_params, memory_init_params, HAVE_SMI_HANDLER, params, fsp_header, s3wake, BootMode, calls, status,
                   hob_list_ptr, hob_list, fsp_memory, cbmem_root, memory_info_hob,
                   hob_ptr, smm_base, fsp_reserved_bytes, cbmem_fsp, cbmem_size,
                   runtime_hob_list, fsp_reserved_memory_area, fsp_verification_failure>>

\* the hooks run on the defaults in place, the copy taken afterwards
SetupParams_InPlace ==
    /\ pc = "setup"
    /\ original_params' = MemoryInitHooks(original_params)
    /\ memory_init_params' = original_params'
    /\ BootMode' = SelectBootMode(s3wake, params.saved_data)
    /\ goto("call")
    /\ UNCHANGED <<heapvars, socvars, logvars, silvars, HAVE_SMI_HANDLER, params, fsp_header, s3wake, calls, status,
                   hob_list_ptr, hob_list, fsp_memory, cbmem_root, memory_info_hob,
                   hob_ptr, smm_base, fsp_reserved_bytes, cbmem_fsp, cbmem_size,
                   runtime_hob_list, fsp_reserved_memory_area, fsp_verification_failure>>

\* lines 586-616: working copy, boot mode, parameter hooks
SetupParams ==
    /\ pc = "setup"
    /\ memory_init_params' = MemoryInitHooks(original_params)
    /\ BootMode' = SelectBootMode(s3wake, params.saved_data)
    /\ goto("call")
    /\ UNCHANGED <<heapvars, socvars, logvars, silvars, original_params, HAVE_SMI_HANDLER, params, fsp_header, s3wake, calls, status,
                   hob_list_ptr, hob_list, fsp_memory, cbmem_root, memory_info_hob,
                   hob_ptr, smm_base, fsp_reserved_bytes, cbmem_fsp, cbmem_size,
                   runtime_hob_list, fsp_reserved_memory_area, fsp_verification_failure>>

\* lines 618-638: the call of FspMemoryInit.  The module returns a status and,
\* on success, stores the address of its HOB list (which may be NULL).
FspMemoryInit ==
    /\ pc = "call"
    /\ calls' = calls + 1
    /\ \/ /\ status' = EFI_DEVICE_ERROR
          /\ UNCHANGED <<hob_list_ptr, hob_list>>
       \/ /\ status' = EFI_SUCCESS
          /\ \/ UNCHANGED <<hob_list_ptr, hob_list>>
             \/ /\ hob_list_ptr' = 1
                /\ hob_list' \in HobLists
    /\ goto("status")
    /\ UNCHANGED <<heapvars, socvars, logvars, silvars, original_params, memory_init_params, HAVE_SMI_HANDLER, params, fsp_header, s3wake, BootMode,
                   fsp_memory, cbmem_root, memory_info_hob,
                   hob_ptr, smm_base, fsp_reserved_bytes, cbmem_fsp, cbmem_size,
                   runtime_hob_list, fsp_reserved_memory_area, fsp_verification_failure>>

\* the call tried again after a failure
CheckStatus_Retry ==
    /\ pc = "status"
    /\ IF StatusFailed(status)
       THEN goto("call")
       ELSE goto("fsp_memory")
    /\ UNCHANGED <<heapvars, socvars, logvars, silvars, original_params, memory_init_params, HAVE_SMI_HANDLER, params, fsp_header, s3wake, BootMode, calls, status,
                   hob_list_ptr, hob_list, fsp_memory, cbmem_root, memory_info_hob,
                   hob_ptr, smm_base, fsp_reserved_bytes, cbmem_fsp, cbmem_size,
                   runtime_hob_list, fsp_reserved_memory_area, fsp_verification_failure>>

\* lines 640-644
CheckStatus ==
    /\ pc = "status"
    /\ IF StatusFailed(status)
       THEN die_with_post_code(POSTCODE_RAM_FAILURE)
       ELSE goto("fsp_memory")
    /\ UNCHANGED <<heapvars, socvars, logvars, silvars, original_params, memory_init_params, HAVE_SMI_HANDLER, params, fsp_header, s3wake, BootMode, calls, status,
                   hob_list_ptr, hob_list, fsp_memory, cbmem_root, memory_info_hob,
                   hob_ptr, smm_base, fsp_reserved_bytes, cbmem_fsp, cbmem_size,
                   runtime_hob_list, fsp_reserved_memory_area, fsp_verification_failure>>

\* lines 646-656: the FSP reserved memory HOB
LocateFspReserved ==
    /\ pc = "fsp_memory"
    /\ fsp_memory' = get_resource_hob(fsp_reserved_guid, hob_list_ptr, hob_list)
    /\ IF fsp_memory' = NULL
       THEN /\ fsp_verification_failure' = 1
            /\ UNCHANGED fsp_reserved_bytes
       ELSE /\ fsp_reserved_bytes' = hob_list[fsp_memory'].ResourceLength
            /\ UNCHANGED fsp_verification_failure
    /\ goto("smm")
    /\ UNCHANGED <<heapvars, socvars, logvars, silvars, original_params, memory_init_params, HAVE_SMI_HANDLER, params, fsp_header, s3wake, BootMode, calls, status,
                   hob_list_ptr, hob_list, cbmem_root, memory_info_hob,
                   hob_ptr, smm_base, cbmem_fsp, cbmem_size,
                   runtime_hob_list, fsp_reserved_memory_area>>

\* lines 658-665
SmmRegion ==
    /\ pc = "smm"
    /\ IF HAVE_SMI_HANDLER THEN smm_base' \in SmmBases ELSE UNCHANGED smm_base
    /\ goto("cbmem_init")
    /\ UNCHANGED <<heapvars, socvars, logvars, silvars, original_params, memory_init_params, HAVE_SMI_HANDLER, params, fsp_header, s3wake, BootMode, calls, status,
                   hob_list_ptr, hob_list, fsp_memory, cbmem_root, memory_info_hob,
                   hob_ptr, fsp_reserved_bytes, cbmem_fsp, cbmem_size,
                   runtime_hob_list, fsp_reserved_memory_area, fsp_verification_failure>>

\* The accounting subsystem adds the block of the given size; where it lies,
\* and whether the addition succeeds at all, is the subsystem's choice.
cbmem_add(size) ==
    /\ cbmem_fsp' \in {NULL} \cup Addr
    /\ cbmem_size' = size

\* the block requested with no length
CbmemInit_NoLength ==
    /\ pc = "cbmem_init"
    /\ IF ~s3wake
       THEN /\ cbmem_add(0)
            /\ goto("set_runtime")
       ELSE \/ /\ cbmem_add(0)
               /\ goto("set_runtime")
            \/ /\ pc' = "reset"
               /\ haltAt' = pc
               /\ UNCHANGED <<post, cbmem_fsp, cbmem_size>>
    /\ UNCHANGED <<heapvars, socvars, logvars, silvars, original_params, memory_init_params, HAVE_SMI_HANDLER, params, fsp_header, s3wake, BootMode, calls, status,
                   hob_list_ptr, hob_list, fsp_memory, cbmem_root, memory_info_hob,
                   hob_ptr, smm_base, fsp_reserved_bytes,
                   runtime_hob_list, fsp_reserved_memory_area, fsp_verification_failure>>

\* lines 667-677: a fresh cbmem, or on S3 resume the recovered one; a failed
\* recovery resets the platform
CbmemInit ==
    /\ pc = "cbmem_init"
    /\ IF ~s3wake
       THEN /\ cbmem_add(fsp_reserved_bytes)
            /\ goto("set_runtime")
       ELSE \/ /\ cbmem_add(fsp_reserved_bytes)
               /\ goto("set_runtime")
            \/ /\ pc' = "reset"
               /\ haltAt' = pc
               /\ UNCHANGED <<post, cbmem_fsp, cbmem_size>>
    /\ UNCHANGED <<heapvars, socvars, logvars, silvars, original_params, memory_init_params, HAVE_SMI_HANDLER, params, fsp_header, s3wake, BootMode, calls, status,
                   hob_list_ptr, hob_list, fsp_memory, cbmem_root, memory_info_hob,
                   hob_ptr, smm_base, fsp_reserved_bytes,
                   runtime_hob_list, fsp_reserved_memory_area, fsp_verification_failure>>

\* lines 679-680
FspSetRuntime ==
    /\ pc = "set_runtime"
    /\ runtime_hob_list' = hob_list_ptr
    /\ goto("cbmem_root")
    /\ UNCHANGED <<heapvars, socvars, logvars, silvars, original_params, memory_init_params, HAVE_SMI_HANDLER, params, fsp_header, s3wake, BootMode, calls, status,
                   hob_list_ptr, hob_list, fsp_memory, cbmem_root, memory_info_hob,
                   hob_ptr, smm_base, fsp_reserved_bytes, cbmem_fsp, cbmem_size,
                   fsp_reserved_memory_area, fsp_verification_failure>>

\* lines 682-689: the bootloader TOLUM HOB
LocateTolum ==
    /\ pc = "cbmem_root"
    /\ cbmem_root' = get_resource_hob(bootldr_tolum_guid, hob_list_ptr, hob_list)
    /\ IF cbmem_root' = NULL
       THEN fsp_verification_failure' = 1
       ELSE UNCHANGED fsp_verification_failure
    /\ goto("memory_info")
    /\ UNCHANGED <<heapvars, socvars, logvars, silvars, original_params, memory_init_params, HAVE_SMI_HANDLER, params, fsp_header, s3wake, BootMode, calls, status,
                   hob_list_ptr, hob_list, fsp_memory, memory_info_hob,
                   hob_ptr, smm_base, fsp_reserved_bytes, cbmem_fsp, cbmem_size,
                   runtime_hob_list, fsp_reserved_memory_area>>

\* lines 691-696: the SMBIOS memory info HOB
LocateMemoryInfo ==
    /\ pc = "memory_info"
    /\ memory_info_hob' = get_guid_hob(memory_info_hob_guid, hob_list_ptr, hob_list)
    /\ IF memory_info_hob' = NULL
       THEN fsp_verification_failure' = 1
       ELSE UNCHANGED fsp_verification_failure
    /\ goto("hob_list")
    /\ UNCHANGED <<heapvars, socvars, logvars, silvars, original_params, memory_init_params, HAVE_SMI_HANDLER, params, fsp_header, s3wake, BootMode, calls, status,
                   hob_list_ptr, hob_list, fsp_memory, cbmem_root,
                   hob_ptr, smm_base, fsp_reserved_bytes, cbmem_fsp, cbmem_size,
                   runtime_hob_list, fsp_reserved_memory_area>>

\* lines 698-701
CheckHobList ==
    /\ pc = "hob_list"
    /\ IF hob_list_ptr = NULL
       THEN die_with_post_code(POSTCODE_RAM_FAILURE)
       ELSE goto("mrc")
    /\ UNCHANGED <<heapvars, socvars, logvars, silvars, original_params, memory_init_params, HAVE_SMI_HANDLER, params, fsp_header, s3wake, BootMode, calls, status,
                   hob_list_ptr, hob_list, fsp_memory, cbmem_root, memory_info_hob,
                   hob_ptr, smm_base, fsp_reserved_bytes, cbmem_fsp, cbmem_size,
                   runtime_hob_list, fsp_reserved_memory_area, fsp_verification_failure>>

\* the data to save captured at the first lookup, before the verdict
LocateMrc_Saves ==
    /\ pc = "mrc"
    /\ hob_ptr' = get_guid_hob(mrc_guid, hob_list_ptr, hob_list)
    /\ IF MrcHobMissing(hob_ptr', params.saved_data)
       THEN fsp_verification_failure' = 1
       ELSE UNCHANGED fsp_verification_failure
    /\ goto("cbmem_find")
    /\ params' = SavedParams_AlwaysEmpty(params, hob_ptr')
    /\ UNCHANGED <<heapvars, socvars, logvars, silvars, original_params, memory_init_params, HAVE_SMI_HANDLER, fsp_header, s3wake, BootMode, calls, status,
                   hob_list_ptr, hob_list, fsp_memory, cbmem_root, memory_info_hob,
                   smm_base, fsp_reserved_bytes, cbmem_fsp, cbmem_size,
                   runtime_hob_list, fsp_reserved_memory_area>>

\* lines 703-711: the non-volatile storage HOB
LocateMrc ==
    /\ pc = "mrc"
    /\ hob_ptr' = get_guid_hob(mrc_guid, hob_list_ptr, hob_list)
    /\ IF MrcHobMissing(hob_ptr', params.saved_data)
       THEN fsp_verification_failure' = 1
       ELSE UNCHANGED fsp_verification_failure
    /\ goto("cbmem_find")
    /\ UNCHANGED <<heapvars, socvars, logvars, silvars, original_params, memory_init_params, HAVE_SMI_HANDLER, params, fsp_header, s3wake, BootMode, calls, status,
                   hob_list_ptr, hob_list, fsp_memory, cbmem_root, memory_info_hob,
                   smm_base, fsp_reserved_bytes, cbmem_fsp, cbmem_size,
                   runtime_hob_list, fsp_reserved_memory_area>>

\* lines 717-719
CbmemFind ==
    /\ pc = "cbmem_find"
    /\ fsp_reserved_memory_area' = cbmem_fsp
    /\ goto("placement")
    /\ UNCHANGED <<heapvars, socvars, logvars, silvars, original_params, memory_init_params, HAVE_SMI_HANDLER, params, fsp_header, s3wake, BootMode, calls, status,
                   hob_list_ptr, hob_list, fsp_memory, cbmem_root, memory_info_hob,
                   hob_ptr, smm_base, fsp_reserved_bytes, cbmem_fsp, cbmem_size,
                   runtime_hob_list, fsp_verification_failure>>

\* lines 721-727
CheckPlacement ==
    /\ pc = "placement"
    /\ IF /\ fsp_memory # NULL
          /\ cbmem_root # NULL
          /\ AboveCbmemRoot(hob_list[cbmem_root].PhysicalStart,
                            hob_list[fsp_memory].PhysicalStart)
       THEN fsp_verification_failure' = 1
       ELSE UNCHANGED fsp_verification_failure
    /\ goto("reserved_area")
    /\ UNCHANGED <<heapvars, socvars, logvars, silvars, original_params, memory_init_params, HAVE_SMI_HANDLER, params, fsp_header, s3wake, BootMode, calls, status,
                   hob_list_ptr, hob_list, fsp_memory, cbmem_root, memory_info_hob,
                   hob_ptr, smm_base, fsp_reserved_bytes, cbmem_fsp, cbmem_size,
                   runtime_hob_list, fsp_reserved_memory_area>>

\* lines 729-746
CheckReservedArea ==
    /\ pc = "reserved_area"
    /\ IF /\ fsp_memory # NULL
          /\ ReservedAreaMismatch(fsp_reserved_memory_area,
                                  hob_list[fsp_memory].PhysicalStart)
       THEN /\ fsp_verification_failure' = 1
            /\ IF ChipsetReservedDie(HAVE_SMI_HANDLER, cbmem_root)
               THEN die_with_post_code(POSTCODE_INVALID_VENDOR_BINARY)
               ELSE goto("verdict")
       ELSE /\ UNCHANGED fsp_verification_failure
            /\ goto("verdict")
    /\ UNCHANGED <<heapvars, socvars, logvars, silvars, original_params, memory_init_params, HAVE_SMI_HANDLER, params, fsp_header, s3wake, BootMode, calls, status,
                   hob_list_ptr, hob_list, fsp_memory, cbmem_root, memory_info_hob,
                   hob_ptr, smm_base, fsp_reserved_bytes, cbmem_fsp, cbmem_size,
                   runtime_hob_list, fsp_reserved_memory_area>>

\* the failed verdict reported with the code of a RAM failure
CheckVerdict_RamFailure ==
    /\ pc = "verdict"
    /\ IF fsp_verification_failure # 0
       THEN die_with_post_code(POSTCODE_RAM_FAILURE)
       ELSE goto("save")
    /\ UNCHANGED <<heapvars, socvars, logvars, silvars, original_params, memory_init_params, HAVE_SMI_HANDLER, params, fsp_header, s3wake, BootMode, calls, status,
                   hob_list_ptr, hob_list, fsp_memory, cbmem_root, memory_info_hob,
                   hob_ptr, smm_base, fsp_reserved_bytes, cbmem_fsp, cbmem_size,
                   runtime_hob_list, fsp_reserved_memory_area, fsp_verification_failure>>

\* lines 748-751
CheckVerdict ==
    /\ pc = "verdict"
    /\ IF fsp_verification_failure # 0
       THEN die_with_post_code(POSTCODE_INVALID_VENDOR_BINARY)
       ELSE goto("save")
    /\ UNCHANGED <<heapvars, socvars, logvars, silvars, original_params, memory_init_params, HAVE_SMI_HANDLER, params, fsp_header, s3wake, BootMode, calls, status,
                   hob_list_ptr, hob_list, fsp_memory, cbmem_root, memory_info_hob,
                   hob_ptr, smm_base, fsp_reserved_bytes, cbmem_fsp, cbmem_size,
                   runtime_hob_list, fsp_reserved_memory_area, fsp_verification_failure>>

\* lines 753-764: the MRC data to save for the next boot
SaveMrcData ==
    /\ pc = "save"
    /\ params' = SavedParams(params, get_guid_hob(mrc_guid, hob_list_ptr, hob_list))
    /\ goto("done")
    /\ UNCHANGED <<heapvars, socvars, logvars, silvars, original_params, memory_init_params, HAVE_SMI_HANDLER, fsp_header, s3wake, BootMode, calls, status,
                   hob_list_ptr, hob_list, fsp_memory, cbmem_root, memory_info_hob,
                   hob_ptr, smm_base, fsp_reserved_bytes, cbmem_fsp, cbmem_size,
                   runtime_hob_list, fsp_reserved_memory_area, fsp_verification_failure>>

\* ------------------------------- intel_silicon_init, fsp_run_silicon_init
ramvars == <<HAVE_SMI_HANDLER, pc, params, fsp_header, s3wake, BootMode, calls, status,
             hob_list_ptr, hob_list, fsp_memory, cbmem_root, memory_info_hob, hob_ptr,
             smm_base, fsp_reserved_bytes, cbmem_fsp, cbmem_size, runtime_hob_list,
             fsp_reserved_memory_area, fsp_verification_failure, post, haltAt,
             original_params, memory_init_params>>

\* the board hook called before the SoC hook
SiliconInitHooks_BoardFirst(defaults) == soc_init_params(mainboard_init_params(defaults))

\* ramstage.c lines 78-85: the defaults copied, then the SoC hook, then the
\* mainboard hook, all on the copy
SiliconInitHooks(defaults) == mainboard_init_params(soc_init_params(defaults))

\* the last offset not checked
InvalidImage_NoSiliconOffset(fih) ==
    \/ fih.ImageBase = 0
    \/ fih.CfgRegionOffset = 0
    \/ fih.PcdUpdRegionOffset = 0

\* ramstage.c lines 56, 66, 73: an offset the UPD data cannot be found without
InvalidImage(fih) ==
    \/ fih.ImageBase = 0
    \/ fih.CfgRegionOffset = 0
    \/ fih.PcdUpdRegionOffset = 0
    \/ fih.SiliconInitUpdOffset = 0

\* ramstage.c lines 171-182: intel_silicon_init loads the FSP and gets its header
IntelSiliconInit ==
    /\ spc = "sil_entry"
    /\ IF fsp_info_header.isNull
       THEN spc' = "sil_returned"
       ELSE spc' = "sil_run"
    /\ UNCHANGED <<heapvars, socvars, logvars, ramvars, RUN_FSP_GOP, BMP_LOGO, fsp_info_header, sil_original_params,
                   silicon_init_params, sil_calls, sil_status, sil_log>>

\* ramstage.c lines 49-76: the header and the offsets; an error is printed and
\* the function returns
ResolveSiliconUpd ==
    /\ spc = "sil_run"
    /\ IF fsp_info_header.isNull \/ InvalidImage(fsp_info_header)
       THEN spc' = "sil_returned"
       ELSE spc' = "sil_setup"
    /\ UNCHANGED <<heapvars, socvars, logvars, ramvars, RUN_FSP_GOP, BMP_LOGO, fsp_info_header, sil_original_params,
                   silicon_init_params, sil_calls, sil_status, sil_log>>

\* ramstage.c lines 78-101: working copy, parameter hooks, logo
SetupSiliconParams ==
    /\ spc = "sil_setup"
    /\ LET hooked == SiliconInitHooks(sil_original_params) IN
       silicon_init_params' =
           IF BMP_LOGO THEN [hooked EXCEPT !["PcdLogoPtr"] = "logo"] ELSE hooked
    /\ spc' = "sil_call"
    /\ UNCHANGED <<heapvars, socvars, logvars, ramvars, RUN_FSP_GOP, BMP_LOGO, fsp_info_header, sil_original_params,
                   sil_calls, sil_status, sil_log>>

\* ramstage.c lines 103-120: the call of FspSiliconInit; its status is printed
FspSiliconInit ==
    /\ spc = "sil_call"
    /\ sil_calls' = sil_calls + 1
    /\ sil_status' \in {EFI_SUCCESS, EFI_DEVICE_ERROR}
    /\ spc' = "sil_gop"
    /\ UNCHANGED <<heapvars, socvars, logvars, ramvars, RUN_FSP_GOP, BMP_LOGO, fsp_info_header, sil_original_params,
                   silicon_init_params, sil_log>>

\* ramstage.c lines 122-150: logo release and the graphics hand-off; the
\* graphics HOB may be there or not
GraphicsHandOff ==
    /\ spc = "sil_gop"
    /\ IF RUN_FSP_GOP
       THEN \/ sil_log' = Append(sil_log, "fb_add_framebuffer_info")
            \/ sil_log' = Append(sil_log, "graphics_hob_missing")
       ELSE UNCHANGED sil_log
    /\ spc' = "sil_display"
    /\ UNCHANGED <<heapvars, socvars, logvars, ramvars, RUN_FSP_GOP, BMP_LOGO, fsp_info_header, sil_original_params,
                   silicon_init_params, sil_calls, sil_status>>

\* ramstage.c line 152 and lines 13-37: the hand-off records are displayed and
\* fsp_run_silicon_init returns to its caller
DisplayHobInfo ==
    /\ spc = "sil_display"
    /\ sil_log' = Append(sil_log, "display_hob_info")
    /\ spc' = "sil_returned"
    /\ UNCHANGED <<heapvars, socvars, logvars, ramvars, RUN_FSP_GOP, BMP_LOGO, fsp_info_header, sil_original_params,
                   silicon_init_params, sil_calls, sil_status>>

\* ------------------------------------------------- soc_init_pre_device
\* one call of soc_init_pre_device, recorded in the order it is made
SocCall(from, to, call) ==
    /\ socpc = from
    /\ socpc' = to
    /\ soc_log' = Append(soc_log, call)
    /\ UNCHANGED <<ramvars, silvars, logvars, heapvars, cse_early_eop>>

\* part_000 lines 384-387: a failure is printed, nothing else
SocLoadHsphy ==
    /\ SocCall("soc_hsphy", "soc_silicon", "load_and_init_hsphy")
    /\ hsphy_loaded' \in BOOLEAN

\* part_000 line 390
SocSiliconInit ==
    /\ SocCall("soc_silicon", "soc_fvi", "fsp_silicon_init")
    /\ UNCHANGED hsphy_loaded

\* part_000 line 393
SocDisplayFvi ==
    /\ SocCall("soc_fvi", "soc_gpio", "fsp_display_fvi_version_hob")
    /\ UNCHANGED hsphy_loaded

\* part_000 line 395
SocGpioPm ==
    /\ SocCall("soc_gpio", "soc_pch_rp", "soc_fill_gpio_pm_configuration")
    /\ UNCHANGED hsphy_loaded

\* part_000 line 398
SocPchRp ==
    /\ SocCall("soc_pch_rp", "soc_tbt_rp", "pcie_rp_update_devicetree_pch")
    /\ UNCHANGED hsphy_loaded

\* part_000 line 401
SocTbtRp ==
    /\ SocCall("soc_tbt_rp", "soc_eop", "pcie_rp_update_devicetree_tbt")
    /\ UNCHANGED hsphy_loaded

\* part_000 lines 408-411: the early end-of-post message, then the return
SocEop ==
    /\ socpc = "soc_eop"
    /\ socpc' = "soc_returned"
    /\ soc_log' = IF cse_early_eop THEN Append(soc_log, "cse_send_eop") ELSE soc_log
    /\ UNCHANGED <<ramvars, silvars, logvars, heapvars, cse_early_eop, hsphy_loaded>>

\* ------------------------------------------------- the log functions called
\* the pointer a caller holds to the table in cbmem
CbmemLogPtr == IF cbmem_log.present THEN CBMEM_LOG ELSE NULL

\* whether cbmem_add succeeds, where tpm_cb_log_cbmem_init can come to call it
AddedChoices == IF ENV_HAS_CBMEM /\ ~cbmem_log.present THEN BOOLEAN ELSE {FALSE}

\* part_005 lines 48-94
LogCbmemInit ==
    /\ lpc = "log"
    /\ \E added \in AddedChoices :
         LET r == tpm_cb_log_cbmem_init(tclt, cbmem_log, ENV_HAS_CBMEM, added) IN
         /\ tclt' = r.tclt
         /\ cbmem_log' = r.cbmem_log
         /\ log_op' = LogOp("cbmem_init", IF r.ret = NULL THEN "null" ELSE "table",
                            0, r.ret, NULL)
    /\ UNCHANGED <<ramvars, silvars, heapvars, socvars, lpc, ENV_HAS_CBMEM, tpm_log>>

\* part_005 lines 139-201
LogAddTableEntry ==
    /\ lpc = "log"
    /\ \E in \in AddInputs, added \in AddedChoices :
         LET r == tpm_log_init(tclt, cbmem_log, ENV_HAS_CBMEM, added)
             t == IF r.ret = CBMEM_LOG THEN r.cbmem_log ELSE tpm_log
             v == AddVerdict(r.ret, t, in)
         IN /\ tclt' = r.tclt
            /\ cbmem_log' = IF v = "ok" /\ r.ret = CBMEM_LOG
                            THEN AddEntry(t, in) ELSE r.cbmem_log
            /\ tpm_log' = IF v = "ok" /\ r.ret = PRERAM_LOG
                          THEN AddEntry(t, in) ELSE tpm_log
            /\ log_op' = LogOp("add", v, 0, r.ret, NULL)
    /\ UNCHANGED <<ramvars, silvars, heapvars, socvars, lpc, ENV_HAS_CBMEM>>

\* part_005 lines 204-222
LogPreramClear ==
    /\ lpc = "log"
    /\ tpm_log' = tpm_cb_preram_log_clear(tpm_log)
    /\ log_op' = LogOp("clear", "", 0, PRERAM_LOG, NULL)
    /\ UNCHANGED <<ramvars, silvars, heapvars, socvars, lpc, ENV_HAS_CBMEM, tclt, cbmem_log>>

\* part_005 lines 226-270: the pointers are checked before tpm_log_init is
\* called
LogGet ==
    /\ lpc = "log"
    /\ \E entry_idx \in (-1)..(MAX_TPM_LOG_ENTRIES + 1), args_ok \in BOOLEAN,
          added \in AddedChoices :
         LET r == IF args_ok
                  THEN tpm_log_init(tclt, cbmem_log, ENV_HAS_CBMEM, added)
                  ELSE [tclt |-> tclt, cbmem_log |-> cbmem_log, ret |-> NULL]
             t == IF r.ret = CBMEM_LOG THEN r.cbmem_log ELSE tpm_log
             ret == tpm_cb_log_get(args_ok, r.ret, t, entry_idx)
         IN /\ tclt' = r.tclt
            /\ cbmem_log' = r.cbmem_log
            /\ log_op' = LogOp("get", IF ret = 0 THEN "success" ELSE "error",
                               entry_idx, r.ret, NULL)
    /\ UNCHANGED <<ramvars, silvars, heapvars, socvars, lpc, ENV_HAS_CBMEM, tpm_log>>

\* part_005 lines 287-341: the pre-RAM table copied into the table in cbmem, or
\* the other way
LogCopyEntries ==
    /\ lpc = "log"
    /\ \/ /\ cbmem_log' = tpm_cb_log_copy_entries(PRERAM_LOG, tpm_log,
                                                  CbmemLogPtr, cbmem_log)
          /\ log_op' = LogOp("copy",
                             IF CopyRejected(PRERAM_LOG, tpm_log, CbmemLogPtr, cbmem_log)
                             THEN "rejected" ELSE "copied",
                             0, CbmemLogPtr, PRERAM_LOG)
          /\ UNCHANGED tpm_log
       \/ /\ tpm_log' = tpm_cb_log_copy_entries(CbmemLogPtr, cbmem_log,
                                                PRERAM_LOG, tpm_log)
          /\ log_op' = LogOp("copy",
                             IF CopyRejected(CbmemLogPtr, cbmem_log, PRERAM_LOG, tpm_log)
                             THEN "rejected" ELSE "copied",
                             0, PRERAM_LOG, CbmemLogPtr)
          /\ UNCHANGED cbmem_log
    /\ UNCHANGED <<ramvars, silvars, heapvars, socvars, lpc, ENV_HAS_CBMEM, tclt>>

\* ---------------------------------------- calls of the hardened allocator
\* the allocator is called in any order, starting from the zeroed table
HeapInit ==
    /\ hpc = "heap"
    /\ alloc_table = EmptyAllocTable
    /\ heap = [p \in HeapPtrs |-> DeadBlock]
    /\ heap_op = NoHeapOp
    /\ RaminitIdle
    /\ RaminitLocals
    /\ SiliconInitIdle
    /\ SiliconInitLocals
    /\ SocIdle
    /\ LogIdle

\* hardened_malloc.c lines 25-47.  A canary written outside the block is
\* undefined behaviour: the store either faults, and nothing runs after it, or
\* lands in the memory next to the block and the function goes on.
HardenedMalloc ==
    /\ hpc = "heap"
    /\ \E size \in MallocSizes, real_ptr \in malloc_results(heap) :
         LET r == hardened_malloc(alloc_table, heap, size, real_ptr)
         IN \/ /\ alloc_table' = r.alloc_table
               /\ heap' = r.heap
               /\ heap_op' = [op |-> "malloc", ptr |-> r.ret, frees |-> << >>,
                              report |-> ""]
               /\ UNCHANGED hpc
            \/ /\ real_ptr # NULL
               /\ ~CanaryInside(r.heap[real_ptr])
               /\ hpc' = "fault"
               /\ heap' = r.heap
               /\ heap_op' = [op |-> "fault", ptr |-> real_ptr, frees |-> << >>,
                              report |-> ""]
               /\ UNCHANGED alloc_table
    /\ UNCHANGED <<ramvars, silvars, socvars, logvars>>

\* hardened_malloc.c lines 49-67
HardenedFree ==
    /\ hpc = "heap"
    /\ \E ptr \in FreePtrs, word \in CanaryWords :
         LET r == hardened_free(alloc_table, heap, ptr, word)
         IN /\ alloc_table' = r.alloc_table
            /\ heap' = r.heap
            /\ heap_op' = [op |-> "free", ptr |-> ptr, frees |-> r.frees,
                           report |-> r.report]
    /\ UNCHANGED <<ramvars, silvars, socvars, logvars, hpc>>

HeapNext ==
    \/ HardenedMalloc
    \/ HardenedFree

HeapSpec == HeapInit /\ [][HeapNext]_vars

LogNext ==
    \/ LogCbmemInit
    \/ LogAddTableEntry
    \/ LogPreramClear
    \/ LogGet
    \/ LogCopyEntries

LogSpec == LogInit /\ [][LogNext]_vars

Next ==
    \/ SocLoadHsphy
    \/ SocSiliconInit
    \/ SocDisplayFvi
    \/ SocGpioPm
    \/ SocPchRp
    \/ SocTbtRp
    \/ SocEop
    \/ IntelSiliconInit
    \/ ResolveSiliconUpd
    \/ SetupSiliconParams
    \/ FspSiliconInit
    \/ GraphicsHandOff
    \/ DisplayHobInfo
    \/ CheckParams
    \/ ResolveUpd
    \/ SetupParams
    \/ FspMemoryInit
    \/ CheckStatus
    \/ LocateFspReserved
    \/ SmmRegion
    \/ CbmemInit
    \/ FspSetRuntime
    \/ LocateTolum
    \/ LocateMemoryInfo
    \/ CheckHobList
    \/ LocateMrc
    \/ CbmemFind
    \/ CheckPlacement
    \/ CheckReservedArea
    \/ CheckVerdict
    \/ SaveMrcData

Spec == Init /\ [][Next]_vars

\* ---------------------------------------------------- positions of raminit
Order == <<"idle", "entry", "resolve", "setup", "call", "status", "fsp_memory", "smm",
           "cbmem_init", "set_runtime", "cbmem_root", "memory_info", "hob_list",
           "mrc", "cbmem_find", "placement", "reserved_area", "verdict", "save",
           "done">>
Pos(l) == CHOOSE i \in 1..Len(Order) : Order[i] = l
\* the blocks before CurPos have run (the block the function died in has run)
CurPos == IF pc \in {"halt", "reset"} THEN Pos(haltAt) + 1 ELSE Pos(pc)
Ran(l) == Pos(l) < CurPos
Terminated == pc \in {"done", "halt", "reset"}
DiedAt(l) == pc = "halt" /\ haltAt = l

\* ------------------------------------------- facts about the returned list
Has(guid) == hob_list_ptr # NULL /\ \E i \in 1..Len(hob_list) : hob_list[i].guid = guid
First(guid) == CHOOSE i \in 1..Len(hob_list) :
                   /\ hob_list[i].guid = guid
                   /\ \A j \in 1..(i - 1) : hob_list[j].guid # guid
StartOf(guid) == hob_list[First(guid)].PhysicalStart
PrevS3 == ~params.isNull /\ params.power_state # NULL
              /\ params.prev_sleep_state = ACPI_S3
SavedSupplied == ~params.isNull /\ params.saved_data # NULL

\* --------------------------------------------------------------- claims
\* C1: whenever the previous sleep state is S3, the boot mode FspMemoryInit is
\* called with is BOOT_ON_S3_RESUME, with or without saved data.
C1_ResumeDominates ==
    (calls >= 1 /\ PrevS3) => BootMode = BOOT_ON_S3_RESUME

C1_Witness ==
    calls = 1 /\ PrevS3 /\ SavedSupplied /\ BootMode = BOOT_ON_S3_RESUME

\* C2: on a boot that is no resume the mode is NoConfigChange exactly with saved
\* data and FullConfig exactly without; the mode is one of the three and does
\* not change once the module has been called.
C2_NonResumeMode ==
    /\ [](BootMode \in BootModes)
    /\ []((calls >= 1 /\ ~PrevS3) =>
            /\ (BootMode = BOOT_ASSUMING_NO_CONFIGURATION_CHANGES) <=> SavedSupplied
            /\ (BootMode = BOOT_WITH_FULL_CONFIGURATION) <=> ~SavedSupplied)
    /\ [][(pc = "call" \/ calls >= 1) => BootMode' = BootMode]_vars

C2_Witness ==
    calls = 1 /\ ~PrevS3 /\ SavedSupplied
        /\ BootMode = BOOT_ASSUMING_NO_CONFIGURATION_CHANGES

\* What the returned list and the accounting subsystem must satisfy for the
\* boot to go on.
Requirements ==
    /\ Has(fsp_reserved_guid)
    /\ Has(bootldr_tolum_guid)
    /\ Has(memory_info_hob_guid)
    /\ Has(mrc_guid) \/ SavedSupplied
    /\ StartOf(bootldr_tolum_guid) > StartOf(fsp_reserved_guid)
    /\ cbmem_fsp # NULL
    /\ cbmem_fsp = StartOf(fsp_reserved_guid)

C4_FailureHaltsAtOnce ==
    (calls >= 1 /\ status # EFI_SUCCESS) =>
        /\ pc = "status" \/ (DiedAt("status") /\ post = POSTCODE_RAM_FAILURE)
        /\ ~Ran("fsp_memory") /\ ~Ran("cbmem_init") /\ ~Ran("set_runtime")
        /\ ~Ran("cbmem_root") /\ ~Ran("memory_info") /\ ~Ran("mrc")
        /\ ~Ran("cbmem_find") /\ ~Ran("placement") /\ ~Ran("reserved_area")
        /\ ~Ran("verdict")
        /\ fsp_verification_failure = 0 /\ fsp_memory = NULL /\ cbmem_fsp = NULL
        /\ runtime_hob_list = NULL

C4_Witness ==
    calls = 1 /\ status = EFI_DEVICE_ERROR /\ DiedAt("status")
        /\ post = POSTCODE_RAM_FAILURE

\* C5: after a successful call no lookup, no initialisation of the accounting
\* subsystem and no save of the runtime state runs with a HOB list pointer
\* that has not been found non-NULL.
C5_NullCheckFirst ==
    (Ran("fsp_memory") \/ Ran("cbmem_init") \/ Ran("set_runtime")
        \/ Ran("cbmem_root") \/ Ran("memory_info"))
    => (hob_list_ptr # NULL /\ Ran("hob_list"))

\* C6: once the call has succeeded, the verdict is consulted only after the
\* checks 1 to 5 have all run, and between the first check and the verdict
\* nothing but the immediate halt of check 6 halts or resets.
C6_NoShortCircuit ==
    /\ Ran("verdict") =>
           (Ran("fsp_memory") /\ Ran("cbmem_root") /\ Ran("memory_info")
              /\ Ran("mrc") /\ Ran("placement"))
    /\ (Ran("fsp_memory") /\ pc \in {"halt", "reset"}) =>
           (DiedAt("reserved_area") \/ DiedAt("verdict"))

\* the step of raminit that runs the block at position l
Step(l) == pc = l /\ pc' # l

C8_AccountingMismatch ==
    (Ran("reserved_area")
       /\ \/ fsp_reserved_memory_area = NULL
          \/ Has(fsp_reserved_guid)
               /\ fsp_reserved_memory_area # StartOf(fsp_reserved_guid))
    => (/\ fsp_verification_failure = 1
        /\ pc \in {"verdict", "halt"}
        /\ pc = "halt" => post = POSTCODE_INVALID_VENDOR_BINARY)

C8_Witness ==
    /\ DiedAt("verdict")
    /\ fsp_reserved_memory_area = NULL
    /\ Has(fsp_reserved_guid) /\ Has(bootldr_tolum_guid)
    /\ Has(memory_info_hob_guid) /\ Has(mrc_guid)
    /\ StartOf(fsp_reserved_guid) < StartOf(bootldr_tolum_guid)

\* the mismatch check 6 looks for
Mismatch ==
    /\ Has(fsp_reserved_guid)
    /\ \/ fsp_reserved_memory_area = NULL
       \/ fsp_reserved_memory_area # StartOf(fsp_reserved_guid)

\* the chipset reserved bytes between the end of the boundary region and the
\* SMM base: a non-zero difference is what can tell of an under-allocation
ChipsetReservedBytes == delta_bytes(smm_base, hob_list[First(bootldr_tolum_guid)])

\* C9 as stated: raminit dies inside check 6 only when the SMM base and the
\* boundary descriptor together tell of an under-allocation; a mismatch
\* without that is decided with the verdict at the end.
C9_ImmediateHaltOnlyIfUnderAllocated ==
    DiedAt("reserved_area") =>
        (Has(bootldr_tolum_guid) /\ ChipsetReservedBytes # 0)

\* C9 as amended: raminit dies inside check 6 exactly when the check finds a
\* mismatch, the build has an SMI handler and the boundary descriptor is
\* present, whatever the SMM base and the boundary region are; any other
\* mismatch is marked failed and decided with the verdict at the end.
C9_ImmediateHalt ==
    Ran("reserved_area") =>
        /\ DiedAt("reserved_area") <=>
              (Mismatch /\ HAVE_SMI_HANDLER /\ Has(bootldr_tolum_guid))
        /\ (Mismatch /\ ~(HAVE_SMI_HANDLER /\ Has(bootldr_tolum_guid))) =>
              (fsp_verification_failure = 1 /\ (pc = "verdict" \/ DiedAt("verdict")))

C9_Witness ==
    /\ DiedAt("reserved_area")
    /\ post = POSTCODE_INVALID_VENDOR_BINARY
    /\ ChipsetReservedBytes = 0

\* everything the boot needs but the non-volatile storage HOB
OtherRequirements ==
    /\ Has(fsp_reserved_guid)
    /\ Has(bootldr_tolum_guid)
    /\ Has(memory_info_hob_guid)
    /\ StartOf(bootldr_tolum_guid) > StartOf(fsp_reserved_guid)
    /\ cbmem_fsp # NULL
    /\ cbmem_fsp = StartOf(fsp_reserved_guid)

\* C10: a missing non-volatile storage HOB marks the verdict failed exactly
\* when the caller supplied no saved data; with saved data and all the other
\* checks passing raminit does not die and returns with nothing to save.
C10_MissingMrcHob ==
    /\ [][(Step("mrc") /\ ~Has(mrc_guid)) =>
            /\ ~SavedSupplied => fsp_verification_failure' = 1
            /\ SavedSupplied => fsp_verification_failure' = fsp_verification_failure]_vars
    /\ []((Ran("mrc") /\ ~Has(mrc_guid) /\ SavedSupplied /\ OtherRequirements)
            => (pc # "halt" /\ pc # "reset" /\ fsp_verification_failure = 0))
    /\ []((pc = "done" /\ ~Has(mrc_guid)) =>
            (SavedSupplied /\ params.data_to_save_size = 0
               /\ params.data_to_save = NULL))

C10_Witness ==
    /\ pc = "done" /\ ~Has(mrc_guid) /\ SavedSupplied /\ OtherRequirements
    /\ params.data_to_save_size = 0


\* ------------------------------------------------- the data to persist
\* the payload of the first record carrying the non-volatile storage GUID
MrcPayloadSize == hob_list[First(mrc_guid)].HobLength - GuidHobHeader
MrcPayloadAddr == HobAddr(First(mrc_guid)) + GuidHobHeader
RoundedUp(n) == ((n + 15) \div 16) * 16

\* C11: when raminit returns with the non-volatile storage record present, the
\* size written to the parameters is the payload size N rounded up to a
\* multiple of 16 (32 for a payload of 32 bytes) and the pointer is the
\* address of the payload.
C11_PersistedSize ==
    (pc = "done" /\ Has(mrc_guid)) =>
        /\ params.data_to_save_size = RoundedUp(MrcPayloadSize)
        /\ params.data_to_save = MrcPayloadAddr

CleanBoot == ~params.isNull /\ ~PrevS3 /\ ~SavedSupplied
AllFourConsistent == Requirements /\ Has(mrc_guid)

\* C12 as stated: a clean boot whose list holds all four records, consistent
\* with the accounting, ends with the full-configuration mode, a passed
\* verdict, a normal return and a persisted size of zero.
C12_CleanBoot_SizeZero ==
    (CleanBoot /\ Terminated /\ AllFourConsistent) =>
        /\ BootMode = BOOT_WITH_FULL_CONFIGURATION
        /\ pc = "done"
        /\ fsp_verification_failure = 0
        /\ params.data_to_save_size = 0

\* C12: a clean boot whose list holds all four records, consistent with the
\* accounting, ends with the full-configuration mode, a passed verdict and a
\* normal return; the persisted size is not zero: it is a multiple of 16 no
\* smaller than the payload, and the pointer is the payload's address.
C12_CleanBoot ==
    (CleanBoot /\ Terminated /\ AllFourConsistent) =>
        /\ BootMode = BOOT_WITH_FULL_CONFIGURATION
        /\ pc = "done"
        /\ fsp_verification_failure = 0
        /\ params.data_to_save_size # 0
        /\ params.data_to_save_size % 16 = 0
        /\ params.data_to_save_size >= MrcPayloadSize
        /\ params.data_to_save = MrcPayloadAddr

C12_Witness ==
    /\ CleanBoot /\ pc = "done" /\ AllFourConsistent
    /\ params.data_to_save_size >= 16

\* C13: when the non-volatile storage record is absent at the persistence
\* step, that step writes size 0 and a null pointer over whatever the caller
\* left in the fields, and raminit returns normally.
C13_AbsentMrcHob ==
    /\ [][(Step("save") /\ ~Has(mrc_guid)) =>
            /\ pc' = "done"
            /\ params'.data_to_save_size = 0
            /\ params'.data_to_save = NULL]_vars
    /\ []((pc = "done" /\ ~Has(mrc_guid)) =>
            /\ params.data_to_save_size = 0
            /\ params.data_to_save = NULL
            /\ post = POSTCODE_NONE)

C13_Witness ==
    /\ pc = "done" /\ hob_list_ptr # NULL /\ ~Has(mrc_guid)
    /\ params.data_to_save = NULL /\ params.data_to_save # StaleData
    /\ params.data_to_save_size = 0

\* C14: the parameters change only in the persistence step, which runs after
\* FspMemoryInit succeeded and the verdict passed; on every halt and on the
\* S3 reset the two output fields are as the caller left them.
C14_SavedOnlyAfterVerdict ==
    /\ [][params' # params =>
            /\ pc = "save" /\ pc' = "done"
            /\ calls = 1 /\ status = EFI_SUCCESS
            /\ fsp_verification_failure = 0]_vars
    /\ []((pc \in {"halt", "reset"}) =>
            /\ params.isNull \/ params.data_to_save = StaleData
            /\ params.isNull \/ params.data_to_save_size = StaleSize)

C14_Witness ==
    /\ DiedAt("verdict") /\ Has(mrc_guid)
    /\ params.data_to_save = StaleData
    /\ params.data_to_save_size = StaleSize

\* ------------------------------------------------------ the fatal paths
HaltPaths == {"null_params", "null_header", "zero_offset", "module_failure",
              "null_hob_list", "chipset_reserved", "verdict"}

\* the post code each fatal path of raminit passes to die_with_post_code
HaltCode(path) ==
    CASE path = "null_params"      -> POSTCODE_RAM_FAILURE
      [] path = "null_header"      -> POSTCODE_RAM_FAILURE
      [] path = "zero_offset"      -> POSTCODE_INVALID_VENDOR_BINARY
      [] path = "module_failure"   -> POSTCODE_RAM_FAILURE
      [] path = "null_hob_list"    -> POSTCODE_RAM_FAILURE
      [] path = "chipset_reserved" -> POSTCODE_INVALID_VENDOR_BINARY
      [] path = "verdict"          -> POSTCODE_INVALID_VENDOR_BINARY

\* the fatal path a halted raminit took
HaltPath ==
    CASE haltAt = "entry"         -> IF params.isNull THEN "null_params"
                                     ELSE "null_header"
      [] haltAt = "resolve"       -> "zero_offset"
      [] haltAt = "status"        -> "module_failure"
      [] haltAt = "hob_list"      -> "null_hob_list"
      [] haltAt = "reserved_area" -> "chipset_reserved"
      [] haltAt = "verdict"       -> "verdict"

\* C15 as stated: the code a fatal path emits is the code of no other fatal
\* path.
C15_DistinctCodes ==
    pc = "halt" => \A q \in HaltPaths \ {HaltPath} : HaltCode(q) # post

\* C15: a halted raminit emitted one of two codes: the RAM-failure code for
\* null parameters, a null module header, a module-reported failure and a
\* null record list; the invalid-vendor-binary code for a zero configuration
\* offset, the chipset-reserved halt of check 6 and a failed verdict.
C15_TwoCodes ==
    pc = "halt" =>
        /\ haltAt \in {"entry", "resolve", "status", "hob_list",
                       "reserved_area", "verdict"}
        /\ post = HaltCode(HaltPath)
        /\ post \in {POSTCODE_RAM_FAILURE, POSTCODE_INVALID_VENDOR_BINARY}
        /\ post = POSTCODE_RAM_FAILURE <=>
               HaltPath \in {"null_params", "null_header", "module_failure",
                             "null_hob_list"}

C15_Witness ==
    /\ DiedAt("verdict") /\ post = POSTCODE_INVALID_VENDOR_BINARY
    /\ post = HaltCode("zero_offset")

\* C16: with parameters and header present, a zero CfgRegionOffset or a zero
\* PcdUpdRegionOffset makes raminit die with the invalid-vendor-binary code
\* while the configuration buffer is still untouched and FspMemoryInit has
\* not been called.
C16_ZeroOffsetHalts ==
    (pc # "idle" /\ ~params.isNull /\ ~fsp_header.isNull
       /\ (fsp_header.CfgRegionOffset = 0 \/ fsp_header.PcdUpdRegionOffset = 0))
    => /\ pc \in {"entry", "resolve", "halt"}
       /\ pc = "halt" => (haltAt = "resolve"
                            /\ post = POSTCODE_INVALID_VENDOR_BINARY)
       /\ memory_init_params = UpdZero
       /\ calls = 0

C16_Witness ==
    /\ DiedAt("resolve") /\ post = POSTCODE_INVALID_VENDOR_BINARY
    /\ fsp_header.CfgRegionOffset # 0 /\ fsp_header.PcdUpdRegionOffset = 0
    /\ memory_init_params = UpdZero /\ calls = 0

\* C17: once FspSiliconInit has returned a status other than success, no
\* later step of the silicon-initialization stage runs: no graphics hand-off,
\* no record display, no return to the caller.
C17_SiliconFailureHalts ==
    (sil_calls >= 1 /\ sil_status # EFI_SUCCESS) =>
        (spc = "sil_gop" /\ sil_log = <<>>)

\* C18: with a module header present, a zero image base or a zero
\* CfgRegionOffset, PcdUpdRegionOffset or SiliconInitUpdOffset never lets
\* intel_silicon_init return to its caller.
C18_SiliconZeroOffsetHalts ==
    (spc # "idle" /\ ~fsp_info_header.isNull /\ InvalidImage(fsp_info_header))
        => spc # "sil_returned"

\* C19: the module entry point is called at most once in either stage, and a
\* failed call or a failed validation is followed by no second call.
C19_AtMostOneCall ==
    /\ [](calls <= 1 /\ sil_calls <= 1)
    /\ [][(calls >= 1 => calls' = calls)
            /\ (sil_calls >= 1 => sil_calls' = sil_calls)]_vars

C19_Witness == calls = 1 /\ status # EFI_SUCCESS /\ DiedAt("status")

\* what both hooks leave of the defaults when run platform first, board second
HooksApplied(upd, defaults) ==
    /\ upd["PcdSoc"] = "soc"
    /\ upd["PcdBoard"] = "mainboard"
    /\ upd["PcdBoth"] = "mainboard"
    /\ upd["PcdNone"] = defaults["PcdNone"]

C21_DefaultsReadOnly ==
    /\ [](original_params = UpdDefaults /\ sil_original_params = UpdDefaults)
    /\ [][/\ original_params' = original_params
          /\ sil_original_params' = sil_original_params
          /\ (hob_list' # hob_list \/ hob_list_ptr' # hob_list_ptr)
                 => (pc = "call" /\ pc' = "status")]_vars

C21_Witness ==
    /\ pc = "done" /\ Len(hob_list) > 0
    /\ memory_init_params # original_params
    /\ memory_init_params["PcdBoard"] = "mainboard"
    /\ original_params = UpdDefaults


\* the lookup of guid in the returned list runs into the traversal limit
ListCorrupt(guid) ==
    hob_list_ptr # NULL /\ hob_walk(guid, hob_list, 1) = "list_corrupt"
LookedUp == {fsp_reserved_guid, bootldr_tolum_guid, memory_info_hob_guid, mrc_guid}

\* C22: when a lookup of raminit runs into the traversal limit of a list with
\* no end-marker, the verdict is marked failed once all four lookups are done
\* and raminit never returns normally.
C22_CorruptListFails ==
    /\ (Ran("mrc") /\ \E g \in LookedUp : ListCorrupt(g))
           => fsp_verification_failure = 1
    /\ (\E g \in LookedUp : ListCorrupt(g)) => pc # "done"


NonResume == ~params.isNull /\ ~PrevS3
\* the accounting step of raminit has run
AfterCbmemInit == {"set_runtime", "cbmem_root", "memory_info", "hob_list", "mrc",
                   "cbmem_find", "placement", "reserved_area", "verdict", "save",
                   "done"}
PastCbmemInit ==
    \/ pc \in AfterCbmemInit
    \/ pc \in {"halt", "reset"} /\ haltAt \in AfterCbmemInit \cup {"cbmem_init"}

\* C24: the platform reset happens only in the accounting step of a resume
\* from S3; nothing runs after it: no later lookup, no verdict check, no
\* save.  On a boot that is no resume the accounting step never resets and
\* asks for the block with the length of the first tag A record, 0 when
\* there is none.
C24_ResumeReset ==
    /\ [][/\ pc # "reset"
          /\ pc' = "reset" => (pc = "cbmem_init" /\ s3wake /\ PrevS3)]_vars
    /\ [](/\ pc = "reset" =>
              /\ haltAt = "cbmem_init" /\ post = POSTCODE_NONE
              /\ runtime_hob_list = NULL /\ cbmem_root = NULL
              /\ memory_info_hob = NULL /\ hob_ptr = NULL
              /\ fsp_reserved_memory_area = NULL
              /\ params.data_to_save = StaleData
              /\ params.data_to_save_size = StaleSize
          /\ (NonResume /\ PastCbmemInit) =>
              /\ pc # "reset"
              /\ cbmem_size = IF Has(fsp_reserved_guid)
                              THEN hob_list[First(fsp_reserved_guid)].ResourceLength
                              ELSE 0)

C24_Witness ==
    /\ pc = "reset" /\ haltAt = "cbmem_init" /\ PrevS3
    /\ Has(fsp_reserved_guid) /\ fsp_reserved_bytes > 0
    /\ cbmem_fsp = NULL


FihUsable ==
    /\ ~fsp_info_header.isNull
    /\ fsp_info_header.ImageBase # 0
    /\ fsp_info_header.CfgRegionOffset # 0
    /\ fsp_info_header.PcdUpdRegionOffset # 0
    /\ fsp_info_header.SiliconInitUpdOffset # 0

\* C25: FspSiliconInit is called, and the hooks run, only with a header that
\* is not null and whose image base and three offsets are not zero; with any
\* of them null or zero the stage returns with no call made, the working copy
\* untouched by any hook and no hand-off record displayed.
C25_SiliconGuards ==
    /\ (sil_calls >= 1 \/ spc \in {"sil_setup", "sil_call"}) => FihUsable
    /\ (spc # "idle" /\ ~FihUsable) =>
           /\ spc \in {"sil_entry", "sil_run", "sil_returned"}
           /\ sil_calls = 0
           /\ silicon_init_params = UpdZero
           /\ sil_log = << >>

C25_Witness ==
    /\ spc = "sil_returned" /\ ~fsp_info_header.isNull
    /\ fsp_info_header.ImageBase # 0 /\ fsp_info_header.CfgRegionOffset # 0
    /\ fsp_info_header.PcdUpdRegionOffset # 0
    /\ fsp_info_header.SiliconInitUpdOffset = 0
    /\ sil_calls = 0 /\ silicon_init_params = UpdZero /\ sil_log = << >>


\* the calls of soc_init_pre_device in the order the claim gives them
SocOrder ==
    <<"load_and_init_hsphy", "fsp_silicon_init", "fsp_display_fvi_version_hob",
      "soc_fill_gpio_pm_configuration", "pcie_rp_update_devicetree_pch",
      "pcie_rp_update_devicetree_tbt">>
      \o (IF cse_early_eop THEN <<"cse_send_eop">> ELSE << >>)
SocInOrder ==
    /\ Len(soc_log) <= Len(SocOrder)
    /\ \A i \in 1..Len(soc_log) : soc_log[i] = SocOrder[i]
SocCalled(call) == \E i \in 1..Len(soc_log) : soc_log[i] = call

\* C26: soc_init_pre_device makes its calls in the order HS PHY load, silicon
\* init, GPIO power-management configuration, the two root-port updates,
\* the early end-of-post message if configured; and once silicon init has
\* been called the HS PHY firmware is loaded.
C26_SocOrder ==
    /\ SocInOrder
    /\ socpc = "soc_returned" => soc_log = SocOrder
    /\ SocCalled("fsp_silicon_init") => hsphy_loaded


\* ------------------------------------------------- the measurement log
\* this step is a call of the log function op
LogCall(op) == log_op' # log_op /\ log_op'.op = op
\* the table tpm_log_init handed to this call, as the call found it: a table
\* allocated by the call itself starts zeroed and empty
TableBefore == IF log_op'.tab = CBMEM_LOG
               THEN IF cbmem_log.present THEN cbmem_log ELSE FreshTable
               ELSE tpm_log
TableAfter == IF log_op'.tab = CBMEM_LOG THEN cbmem_log' ELSE tpm_log'
\* the tables that existed before the step are as they were
TablesKept ==
    /\ tpm_log' = tpm_log
    /\ cbmem_log.present => cbmem_log' = cbmem_log
    /\ ~cbmem_log.present => cbmem_log' \in {cbmem_log, FreshTable}

\* C27: a successful tpm_cb_log_add_table_entry writes the slot at index
\* num_entries, increments num_entries by one and leaves every other slot,
\* max_entries and the other table as they were; a rejected call leaves
\* num_entries and every entry of both tables as they were.
C27_AppendOnly ==
    [][LogCall("add") =>
         IF log_op'.ret = "ok"
         THEN /\ TableAfter.num_entries = TableBefore.num_entries + 1
              /\ TableAfter.max_entries = TableBefore.max_entries
              /\ TableAfter.entries[TableBefore.num_entries + 1] # ZeroEntry
              /\ \A i \in DOMAIN TableBefore.entries :
                    i # TableBefore.num_entries + 1 =>
                        TableAfter.entries[i] = TableBefore.entries[i]
              /\ log_op'.tab = CBMEM_LOG => tpm_log' = tpm_log
              /\ log_op'.tab = PRERAM_LOG => cbmem_log' = cbmem_log
         ELSE TablesKept]_vars

C27_Witness ==
    /\ log_op.op = "add" /\ log_op.ret = "ok" /\ log_op.tab = CBMEM_LOG
    /\ cbmem_log.num_entries = 2
    /\ cbmem_log.entries[1] # cbmem_log.entries[2]


MetadataValid(t) == t.max_entries > 0 /\ t.num_entries <= t.max_entries
TableAt(ptr) == IF ptr = CBMEM_LOG THEN cbmem_log ELSE tpm_log

\* C28: no call of a log function takes a table from num_entries <=
\* max_entries with max_entries > 0 to one where that fails, and
\* tpm_cb_log_get returns success only for an index from 0 up to, not
\* including, num_entries of the table it read.
C28_WithinBounds ==
    /\ [][/\ MetadataValid(cbmem_log) => MetadataValid(cbmem_log')
          /\ MetadataValid(tpm_log) => MetadataValid(tpm_log')]_vars
    /\ []((log_op.op = "get" /\ log_op.ret = "success") =>
            /\ log_op.tab # NULL
            /\ MetadataValid(TableAt(log_op.tab))
            /\ log_op.idx >= 0
            /\ log_op.idx < TableAt(log_op.tab).num_entries)

C28_Witness ==
    /\ log_op.op = "get" /\ log_op.ret = "success" /\ log_op.tab = PRERAM_LOG
    /\ log_op.idx = tpm_log.num_entries - 1
    /\ tpm_log.num_entries = tpm_log.max_entries


\* C29: a call of tpm_cb_log_cbmem_init leaves a table that is in cbmem
\* exactly as it was and, when its metadata are valid, returns it; the only
\* change the call ever makes is to set up a table that was not there, zeroed
\* and with num_entries 0.  The pre-RAM table is not touched.
C29_CbmemInitKeeps ==
    [][LogCall("cbmem_init") =>
         /\ cbmem_log.present => cbmem_log' = cbmem_log
         /\ (cbmem_log.present /\ MetadataValid(cbmem_log)) =>
                (log_op'.ret = "table" /\ log_op'.tab = CBMEM_LOG
                   /\ tclt' = CBMEM_LOG)
         /\ cbmem_log' # cbmem_log =>
                (~cbmem_log.present /\ cbmem_log' = FreshTable)
         /\ tpm_log' = tpm_log]_vars

C29_Witness ==
    /\ log_op.op = "cbmem_init" /\ log_op.ret = "table" /\ tclt = CBMEM_LOG
    /\ cbmem_log.num_entries = cbmem_log.max_entries
    /\ cbmem_log.entries[1] # ZeroEntry


\* source and destination of the copy made in this step, as the call found
\* them, and the destination as it left it
CopyFrom == TableAt(log_op'.from)
CopyTo == TableAt(log_op'.tab)
CopyToAfter == IF log_op'.tab = CBMEM_LOG THEN cbmem_log' ELSE tpm_log'
Copied == CopyToAfter.num_entries - CopyTo.num_entries

\* C30: tpm_cb_log_copy_entries leaves the source table and the destination's
\* entries below its old num_entries as they were; the entries it adds are
\* the first entries of the source, in source order, none with an over-long
\* digest; it stops exactly when the source is exhausted, the destination is
\* full, or the next source entry has an over-long digest; num_entries of the
\* destination grows by the number of entries copied.
C30_CopyEntries ==
    [][LogCall("copy") =>
         IF log_op'.ret = "rejected"
         THEN cbmem_log' = cbmem_log /\ tpm_log' = tpm_log
         ELSE /\ log_op'.from = CBMEM_LOG => cbmem_log' = cbmem_log
              /\ log_op'.from = PRERAM_LOG => tpm_log' = tpm_log
              /\ CopyToAfter.max_entries = CopyTo.max_entries
              /\ Copied >= 0 /\ Copied <= CopyFrom.num_entries
              /\ \A i \in DOMAIN CopyTo.entries :
                    i <= CopyTo.num_entries =>
                        CopyToAfter.entries[i] = CopyTo.entries[i]
              /\ \A j \in 1..Copied :
                    /\ CopyToAfter.entries[CopyTo.num_entries + j] = CopyFrom.entries[j]
                    /\ CopyFrom.entries[j].digest_length <= TPM_CB_LOG_DIGEST_MAX_LENGTH
              /\ \/ Copied = CopyFrom.num_entries
                 \/ CopyToAfter.num_entries >= CopyTo.max_entries
                 \/ CopyFrom.entries[Copied + 1].digest_length
                        > TPM_CB_LOG_DIGEST_MAX_LENGTH]_vars

C30_Witness ==
    /\ log_op.op = "copy" /\ log_op.ret = "copied"
    /\ log_op.tab = CBMEM_LOG /\ log_op.from = PRERAM_LOG
    /\ cbmem_log.num_entries = 1 /\ cbmem_log.entries[1] = tpm_log.entries[1]
    /\ tpm_log.num_entries = 2
    /\ tpm_log.entries[2].digest_length > TPM_CB_LOG_DIGEST_MAX_LENGTH
    /\ cbmem_log.entries[2] # ZeroEntry

\* ------------------------------------------------------------------ C31
\* a call of hardened_malloc has returned a pointer to a block
MallocReturned == heap_op.op = "malloc" /\ heap_op.ptr # NULL
Tracked(table, ptr) == \E k \in 1..MAX_HARDENED_ALLOCATIONS : table[k].user_ptr = ptr
LiveBlocks == {p \in HeapPtrs : heap[p].live}
\* C31: every non-null pointer hardened_malloc returns is tracked in the
\* allocation table, also when more than MAX_HARDENED_ALLOCATIONS allocations
\* are live at once, and a later hardened_free of a pointer hardened_malloc
\* returned checks its canary, releases the memory and clears its slot.
C31_ReturnedIsTracked ==
    /\ [](MallocReturned => Tracked(alloc_table, heap_op.ptr))
    /\ [][(heap_op'.op = "free" /\ heap_op'.ptr \in LiveBlocks) =>
              /\ heap_op'.frees = <<heap_op'.ptr>>
              /\ heap_op'.report \in {"", "overflow"}
              /\ ~heap'[heap_op'.ptr].live
              /\ ~Tracked(alloc_table', heap_op'.ptr)]_vars

\* ------------------------------------------------------------------ C32
\* the slots that hold ptr
SlotsOf(table, ptr) == {k \in 1..MAX_HARDENED_ALLOCATIONS : table[k].user_ptr = ptr}
\* C32: hardened_free of a null pointer, of a pointer hardened_malloc never
\* returned or of a pointer already freed does not call the underlying free and
\* leaves the allocation table as it is; hardened_free of a tracked pointer
\* calls the underlying free once, on that pointer, and clears that slot and no
\* other, whatever the canary check reports.
C32_FreeOnlyTracked ==
    [][heap_op'.op = "free" =>
           IF heap_op'.ptr # NULL /\ Tracked(alloc_table, heap_op'.ptr)
           THEN /\ heap_op'.frees = <<heap_op'.ptr>>
                /\ heap_op'.report \in {"", "overflow"}
                /\ heap[heap_op'.ptr].live
                /\ heap' = [heap EXCEPT ![heap_op'.ptr] = FreedBlock]
                /\ Cardinality(SlotsOf(alloc_table, heap_op'.ptr)) = 1
                /\ \A k \in 1..MAX_HARDENED_ALLOCATIONS :
                       alloc_table'[k] = IF k \in SlotsOf(alloc_table, heap_op'.ptr)
                                         THEN EmptySlot ELSE alloc_table[k]
           ELSE /\ heap_op'.frees = << >>
                /\ heap' = heap
                /\ alloc_table' = alloc_table]_vars
\* a pointer that was freed has been handed to hardened_free again
C32_Witness ==
    /\ heap_op.op = "free"
    /\ heap_op.ptr \in HeapPtrs
    /\ heap[heap_op.ptr].freed
    /\ heap_op.frees = << >>
    /\ heap_op.report = "unknown"
\* a tracked pointer was freed while its canary was overwritten
C32_OverflowFreed ==
    /\ heap_op.op = "free"
    /\ heap_op.report = "overflow"
    /\ heap_op.frees = <<heap_op.ptr>>

\* ------------------------------------------------------------------ C33
\* C33: for every requested size, the block hardened_malloc obtained is at
\* least size + CANARY_SIZE bytes long and the canary lies in bytes
\* [size, size + CANARY_SIZE) of it, size being the size recorded for the
\* block; this includes the sizes whose sum with CANARY_SIZE wraps.
C33_CanaryInsideBlock ==
    \A p \in HeapPtrs :
        heap[p].live =>
            /\ heap[p].canary_at + CANARY_SIZE <= heap[p].len
            /\ \A k \in SlotsOf(alloc_table, p) : alloc_table[k].size = heap[p].canary_at

====
